---- MODULE Spec2Model ----
(***************************************************************************)
(* gologger: the batching network sinks (AlertQueue, the two LokiNotifier  *)
(* variants, UseLoki) and the Logger dispatcher that feeds them.           *)
(*                                                                         *)
(* Every sink is one flusher goroutine that multiplexes three sources in a *)
(* select loop: an incoming item, a ticker tick, a shutdown signal.  The   *)
(* POST issued by a flush takes time: the flusher sits in "sending" until  *)
(* the transport returns.                                                  *)
(***************************************************************************)
EXTENDS Integers, Sequences, FiniteSets, TLC

\* ---------------------------------------------------------------- bounds
MaxEvents == 2      \* producer calls (log calls and Alert calls) per run
MaxPosts  == 2      \* POST requests a sink issues per run

\* ------------------------------------------------------------- constants
LevelDebug == -4
LevelInfo  == 0
LevelError == 8
StatusOK        == 200
StatusNoContent == 204

Sinks     == {"alert", "lokiOld", "lokiCtx", "useLoki"}
ChanSinks == {"alert", "lokiOld", "lokiCtx"}
Builds    == {"v1", "v2", "v3"}
LogLevels == {LevelInfo, LevelError}
\* What client.Do returns: an error, or a response with a status code
Responses == {[err |-> FALSE, code |-> c] : c \in {StatusOK, StatusNoContent, 500}}
             \cup {[err |-> TRUE, code |-> 0]}
TimeSteps == {1}     \* what the clock advances between two reads

\* The sources are three generations of the package; the sinks that are
\* compiled together are those of one generation.
ActiveSinks(b) ==
  CASE b = "v1" -> {"lokiOld"}
    [] b = "v2" -> {"lokiCtx", "alert"}
    [] b = "v3" -> {"useLoki", "alert"}

VARIABLES
  build,      \* which generation of the package is running
  level,      \* Logger.level
  callbacks,  \* Logger.callbacks: level -> sequence of callbacks
  pc,         \* position of each sink's flusher goroutine
  acc,        \* currentBatch of run() / logBuffer.entries
  pending,    \* producers blocked in `batch <- x`, with the item they hold
  sig,        \* shutdown signal: "none", "signalled", "observed"
  posts,      \* per sink, the POST requests issued so far (history)
  console,    \* per sink, the records its fallback wrote through slog;
              \* under "app", the records of the slog callbacks
  accepted,   \* per sink, ids in the order the accumulator took them (history)
  nextId,     \* number of the next producer call
  now,        \* the clock time.Now() reads
  crashed,    \* a goroutine panicked: the process is gone
  ret,        \* what the last call of the public API returned (history)
  call,       \* the setup call that is waiting in its readiness probe
  queue,      \* alertQueue: nil, or the host and the baseLabels map it holds
  maps,       \* the heap: the label maps that callers and sinks share
  flushers,   \* per sink, the flusher goroutines started so far
  stringers,  \* Logger.stringers: type -> converter
  delivered   \* what the callbacks of the last log call received (history)

\* The state of setup, of the converters and of the call history
xvars == <<ret, call, queue, maps, flushers, stringers, delivered>>

vars == <<build, level, callbacks, pc, acc, pending, sig, posts, console,
          accepted, nextId, now, crashed, xvars>>

\* ------------------------------------------------------------ the items
\* One record shape for a logEntry and an aalert.  `slot` is history: the
\* producer call whose item first occupied this element of the slice.
LogEntry(id, ts, lvl) ==
  [id |-> id, ts |-> ts, ends |-> 0, lvl |-> lvl, hasLabels |-> FALSE,
   labels |-> {}, ann |-> {}, slot |-> id]

AAlert(id, startsAt, endsAt, labels, annotations) ==
  [id |-> id, ts |-> startsAt, ends |-> endsAt, lvl |-> 0, hasLabels |-> TRUE,
   labels |-> labels, ann |-> annotations, slot |-> id]

\* The zero value of the element type: empty message, zero time, level 0,
\* nil maps.
ZeroValue(e) ==
  [id |-> 0, ts |-> 0, ends |-> 0, lvl |-> 0, hasLabels |-> FALSE,
   labels |-> {}, ann |-> {}, slot |-> e.slot]

\* m[k] = v on a map held as a set of <<key, value>> pairs
MapSet(m, k, v) == {p \in m : p[1] # k} \cup {<<k, v>>}

RECURSIVE MapMerge(_, _)
MapMerge(m, base) ==
  IF base = {} THEN m
  ELSE LET p == CHOOSE q \in base : TRUE
       IN  MapMerge(MapSet(m, p[1], p[2]), base \ {p})

\* baseLabels of the AlertQueue after WithAlertManager set instance, service
BaseLabels == {<<"instance", "i1">>, <<"service", "s1">>}

Ids(batch) == [i \in DOMAIN batch |-> batch[i].id]

\* ------------------------------------------------------------------ Init
\* The state after setup: the sinks of the build are constructed, their
\* flushers sit in the select loop, Setup and UseLoki have registered their
\* callbacks with the Logger (v3), and the application may have registered a
\* callback on Error that raises an alert.
SetupCallbacks(b, user) ==
  [l \in LogLevels |->
     IF b # "v3" THEN <<>>
     ELSE <<"slog", "useLoki">> \o
          (IF user /\ l = LevelError THEN <<"userAlert">> ELSE <<>>)]

\* No call made yet / no setup call in its probe / alertQueue == nil
NoRet   == [api |-> "none", err |-> ""]
NoCall  == [api |-> "none"]
NoQueue == [set |-> FALSE, host |-> "", labels |-> 0]

\* The setup the sinks of build b went through: WithAlertManager was called
\* once with a fresh map, every sink has its one flusher.
SetupDone(b) ==
  /\ ret = NoRet
  /\ call = NoCall
  /\ queue = IF "alert" \in ActiveSinks(b)
             THEN [set |-> TRUE, host |-> "h1", labels |-> 1] ELSE NoQueue
  /\ maps = IF "alert" \in ActiveSinks(b) THEN <<BaseLabels>> ELSE <<>>
  /\ flushers = [s \in Sinks |-> IF s \in ActiveSinks(b) THEN 1 ELSE 0]
  /\ stringers = {}
  /\ delivered = <<>>

Init ==
  /\ build \in Builds
  /\ SetupDone(build)
  /\ level = LevelInfo
  /\ \E user \in BOOLEAN : callbacks = SetupCallbacks(build, user)
  /\ pc = [s \in Sinks |-> IF s \in ActiveSinks(build) THEN "select" ELSE "off"]
  /\ acc = [s \in Sinks |-> <<>>]
  /\ pending = [s \in Sinks |-> {}]
  /\ sig = [s \in Sinks |-> "none"]
  /\ posts = [s \in Sinks |-> <<>>]
  /\ console = [s \in Sinks \cup {"app"} |-> <<>>]
  /\ accepted = [s \in Sinks |-> <<>>]
  /\ nextId = 1
  /\ now = 1
  /\ crashed = FALSE

\* ------------------------------------------------------------- producers
Names     == {"", "disk"}
Summaries == {"", "full"}
LabelArgs == {{}, {<<"instance", "mine">>}}

\* startsAt after the defaults of Alert(): a zero startsAt becomes endsAt,
\* or time.Now() when endsAt is zero too.  0 is the zero time.Time.
DefaultStart_keepZero(startsAt, endsAt, t) == startsAt

DefaultStart(startsAt, endsAt, t) ==
  IF startsAt = 0 THEN (IF endsAt = 0 THEN t ELSE endsAt) ELSE startsAt

\* Alert(): the validated constructor.  A zero time.Time is 0; `t` is what
\* time.Now() returns.  The result is the error and the alert handed to the
\* channel (send = FALSE: nothing is handed over).
Alert_validateFirst(queueSet, id, name, summary, startsAt, endsAt, hasLabels, labelsArg, t) ==
  LET labels == MapSet(IF hasLabels THEN labelsArg ELSE {}, "alertname", name)
      ann    == {<<"summary", summary>>}
      s1     == DefaultStart(startsAt, endsAt, t)
      e1     == IF endsAt = 0 THEN s1 ELSE endsAt
      none   == LogEntry(0, 0, 0)
  IN  IF name = "" THEN [err |-> "name", send |-> FALSE, item |-> none]
      ELSE IF summary = "" THEN [err |-> "summary", send |-> FALSE, item |-> none]
      ELSE IF s1 > e1 THEN [err |-> "startsAt", send |-> FALSE, item |-> none]
      ELSE IF ~queueSet THEN [err |-> "not initialized", send |-> FALSE, item |-> none]
      ELSE [err |-> "", send |-> TRUE, item |-> AAlert(id, s1, e1, labels, ann)]

Alert(queueSet, id, name, summary, startsAt, endsAt, hasLabels, labelsArg, t) ==
  LET labels == MapSet(IF hasLabels THEN labelsArg ELSE {}, "alertname", name)
      ann    == {<<"summary", summary>>}
      s1     == DefaultStart(startsAt, endsAt, t)
      e1     == IF endsAt = 0 THEN s1 ELSE endsAt
      none   == LogEntry(0, 0, 0)
  IN  IF ~queueSet THEN [err |-> "not initialized", send |-> FALSE, item |-> none]
      ELSE IF name = "" THEN [err |-> "name", send |-> FALSE, item |-> none]
      ELSE IF summary = "" THEN [err |-> "summary", send |-> FALSE, item |-> none]
      ELSE IF s1 > e1 THEN [err |-> "startsAt", send |-> FALSE, item |-> none]
      ELSE [err |-> "", send |-> TRUE, item |-> AAlert(id, s1, e1, labels, ann)]

\* The level the callback a log sink registers for level lvl writes into the
\* entry: the closure of UseLoki stores its own level; the closures of
\* WithLoki store Info, Warn and Error for these levels, and Info for Debug.
StoredLevel(s, lvl) ==
  IF s \in {"lokiOld", "lokiCtx"} /\ lvl = LevelDebug THEN LevelInfo ELSE lvl

\* alertQueue != nil
AlertQueueSet == pc["alert"] # "off"

\* What one callback does when the dispatcher invokes it with event e, on
\* the part of the state callbacks touch.
Invoke(cb, st, e) ==
  CASE cb = "slog" ->
         [st EXCEPT !.console["app"] =
            Append(@, [kind |-> "log", id |-> e.id, ts |-> e.ts, lvl |-> e.lvl,
                       ids |-> <<>>])]
    [] cb = "useLoki" ->
         [st EXCEPT !.acc["useLoki"] =
                      Append(@, LogEntry(e.id, e.ts, StoredLevel("useLoki", e.lvl))),
                    !.accepted["useLoki"] = Append(@, e.id)]
    [] cb = "userAlert" ->
         LET r == Alert(AlertQueueSet, e.id, "disk", "full", 0, 0, FALSE, {}, e.ts)
         IN  IF r.send THEN [st EXCEPT !.pending["alert"] = @ \cup {r.item}]
             ELSE st
    [] cb \in {"cb1", "cb2"} ->
         [st EXCEPT !.delivered = Append(@, [cb |-> cb, args |-> e.args])]

RECURSIVE InvokeAll(_, _, _)
InvokeAll(cbs, st, e) ==
  IF cbs = <<>> THEN st
  ELSE InvokeAll(Tail(cbs), Invoke(Head(cbs), st, e), e)

\* Logger.log after the argument validation: the level filter, the copy of
\* the callback list, the calls.
Dispatch_noFilter(st, e) == InvokeAll(callbacks[e.lvl], st, e)

Dispatch(st, e) ==
  IF level > e.lvl THEN st ELSE InvokeAll(callbacks[e.lvl], st, e)

Touched == [acc |-> acc, pending |-> pending, console |-> console,
            accepted |-> accepted]

\* Debug/Info/Warn/Error of the Logger (v3)
Log(lvl) ==
  /\ ~crashed /\ build = "v3" /\ nextId <= MaxEvents
  /\ \E dt \in TimeSteps :
       LET st == Dispatch(Touched, [id |-> nextId, ts |-> now + dt, lvl |-> lvl])
       IN  /\ now' = now + dt
           /\ acc' = st.acc /\ pending' = st.pending
           /\ console' = st.console /\ accepted' = st.accepted
  /\ nextId' = nextId + 1
  /\ UNCHANGED <<xvars, build, level, callbacks, pc, sig, posts, crashed>>

\* The closure WithLoki registers for a level: it builds the entry and
\* blocks in `loki.batch <- entry`.
LokiCallback(s, lvl) ==
  /\ ~crashed /\ s \in {"lokiOld", "lokiCtx"} /\ pc[s] # "off"
  /\ nextId <= MaxEvents
  /\ \E dt \in TimeSteps :
       /\ now' = now + dt
       /\ pending' = [pending EXCEPT ![s] =
                        @ \cup {LogEntry(nextId, now + dt, StoredLevel(s, lvl))}]
  /\ nextId' = nextId + 1
  /\ UNCHANGED <<xvars, build, level, callbacks, pc, acc, sig, posts, console,
                 accepted, crashed>>

\* A direct call of Alert()
AlertCall(name, summary, startsAt, endsAt, hasLabels, labelsArg) ==
  /\ ~crashed /\ nextId <= MaxEvents
  /\ \E dt \in TimeSteps :
       LET r == Alert(AlertQueueSet, nextId, name, summary, startsAt, endsAt,
                      hasLabels, labelsArg, now + dt)
       IN  /\ now' = now + dt
           /\ pending' = IF r.send THEN [pending EXCEPT !["alert"] = @ \cup {r.item}]
                         ELSE pending
  /\ nextId' = nextId + 1
  /\ UNCHANGED <<xvars, build, level, callbacks, pc, acc, sig, posts, console,
                 accepted, crashed>>

\* -------------------------------------------------------------- flushers
\* The Go builtin clear on a slice sets every element to the zero value of
\* the element type; the length of the slice stays.
ClearSlice(batch) == [i \in DOMAIN batch |-> ZeroValue(batch[i])]

\* What the end of a flush leaves in the accumulator.
\*   AlertQueue.run:        clear(currentBatch)
\*   LokiNotifier.run():    clear(currentBatch)
\*   LokiNotifier.run(ctx): currentBatch = make([]logEntry, 0)
\*   sendBatch:             the buffer was reset when the snapshot was taken
AfterFlush(s, batch) ==
  CASE s = "alert"   -> ClearSlice(batch)
    [] s = "lokiOld" -> ClearSlice(batch)
    [] s = "lokiCtx" -> <<>>
    [] s = "useLoki" -> batch

\* LokiNotifier.run() of loki.go selects on the channel and the ticker only.
HasShutdown(s) == s # "lokiOld"

\* sendAlerts: `alert.Labels[k] = v` for every alert and every base label.
\* A write into a nil map panics.
NilMapWrite(batch) ==
  BaseLabels # {} /\ \E i \in DOMAIN batch : ~batch[i].hasLabels

InjectBaseLabels_none(batch) == batch

InjectBaseLabels(batch) ==
  [i \in DOMAIN batch |-> [batch[i] EXCEPT !.labels = MapMerge(@, BaseLabels)]]

\* The status the sink takes for a success.
SendOk(s, resp) ==
  /\ ~resp.err
  /\ CASE s = "alert"   -> resp.code = StatusOK
       [] s = "lokiOld" -> resp.code = StatusNoContent
       [] s = "lokiCtx" -> resp.code = StatusNoContent
       [] s = "useLoki" -> resp.code \in {StatusNoContent, StatusOK}

\* The flusher is in its select statement.
InSelect_async(s) == pc[s] \in {"select", "sending"}

InSelect(s) == pc[s] = "select"

InFlight(s) == {i \in DOMAIN posts[s] : posts[s][i].state = "pending"}

\* The records the failure branch of a flush writes.
\*   LokiNotifier.run:  one slog.Error, then one slog.Log per entry with
\*                      originalTimestamp = entry.Timestamp
\*   AlertQueue.run:    one slog.Error that carries the joined alert strings
\*   sendBatch:         one slog.Error
Summary(ids) ==
  [kind |-> "summary", id |-> 0, ts |-> 0, lvl |-> LevelError, ids |-> ids]

Fallback(s, batch) ==
  CASE s \in {"lokiOld", "lokiCtx"} ->
         <<Summary(<<>>)>> \o
         [i \in DOMAIN batch |->
            [kind |-> "event", id |-> batch[i].id, ts |-> batch[i].ts,
             lvl |-> batch[i].lvl, ids |-> <<>>]]
    [] s = "alert"   -> <<Summary(Ids(batch))>>
    [] s = "useLoki" -> <<Summary(<<>>)>>

\* The logger the failure branch writes to: the standard library's slog, not
\* the package's own Logger.
FallbackPath_dispatcher == "dispatcher"

FallbackPath == "slog"

RECURSIVE DispatchAll(_, _)
DispatchAll(st, recs) ==
  IF recs = <<>> THEN st
  ELSE DispatchAll(Dispatch(st, [id |-> Head(recs).id, ts |-> now,
                                 lvl |-> Head(recs).lvl]), Tail(recs))

Emit(s, st, recs) ==
  LET out == [st EXCEPT !.console[s] = @ \o recs]
  IN  IF FallbackPath = "slog" THEN out ELSE DispatchAll(out, recs)

\* A channel with room for an item: the send returns before the receive.
Receive_buffered(s) ==
  /\ ~crashed /\ s \in ChanSinks /\ pc[s] \in {"select", "sending", "stopped"}
  /\ \E e \in pending[s] :
       /\ acc' = [acc EXCEPT ![s] = Append(@, e)]
       /\ pending' = [pending EXCEPT ![s] = @ \ {e}]
       /\ accepted' = [accepted EXCEPT ![s] = Append(@, e.id)]
  /\ UNCHANGED <<xvars, build, level, callbacks, pc, sig, posts, console, nextId,
                 now, crashed>>

\* The item case of the select loop: `currentBatch = append(currentBatch, x)`
Receive(s) ==
  /\ ~crashed /\ s \in ChanSinks /\ InSelect(s)
  /\ \E e \in pending[s] :
       /\ acc' = [acc EXCEPT ![s] = Append(@, e)]
       /\ pending' = [pending EXCEPT ![s] = @ \ {e}]
       /\ accepted' = [accepted EXCEPT ![s] = Append(@, e.id)]
  /\ UNCHANGED <<xvars, build, level, callbacks, pc, sig, posts, console, nextId,
                 now, crashed>>

\* sendAlerts / sendLogs / sendBatch up to the point where the POST is on
\* the wire.  `final` tells the shutdown case from the ticker case.
StartFlush(s, final) ==
  IF Len(acc[s]) = 0 THEN
    /\ pc' = [pc EXCEPT ![s] = IF final THEN "stopped" ELSE @]
    /\ UNCHANGED <<acc, posts, crashed>>
  ELSE IF s = "alert" /\ NilMapWrite(acc[s]) THEN
    /\ crashed' = TRUE
    /\ pc' = [pc EXCEPT ![s] = "crashed"]
    /\ UNCHANGED <<acc, posts>>
  ELSE
    LET body == IF s = "alert" THEN InjectBaseLabels(acc[s]) ELSE acc[s]
    IN  /\ Len(posts[s]) < MaxPosts
        /\ posts' = [posts EXCEPT ![s] =
                       Append(@, [body |-> body, state |-> "pending",
                                  final |-> final])]
        /\ acc' = [acc EXCEPT ![s] = IF s = "useLoki" THEN <<>> ELSE body]
        /\ pc' = [pc EXCEPT ![s] = "sending"]
        /\ UNCHANGED crashed

\* The ticker case of the select loop
Tick(s) ==
  /\ ~crashed /\ InSelect(s)
  /\ StartFlush(s, FALSE)
  /\ UNCHANGED <<xvars, build, level, callbacks, pending, sig, console, accepted,
                 nextId, now>>

\* cancel() of the context handed to WithAlertManager / WithLoki
Cancel(s) ==
  /\ ~crashed /\ s \in {"alert", "lokiCtx"} /\ pc[s] # "off"
  /\ sig[s] = "none"
  /\ sig' = [sig EXCEPT ![s] = "signalled"]
  /\ UNCHANGED <<xvars, build, level, callbacks, pc, acc, pending, posts, console,
                 accepted, nextId, now, crashed>>

\* StopLoki: ticker.Stop(), then it blocks in `done <- true`
StopLoki ==
  /\ ~crashed /\ pc["useLoki"] # "off"
  /\ sig["useLoki"] = "none"
  /\ sig' = [sig EXCEPT !["useLoki"] = "signalled"]
  /\ UNCHANGED <<xvars, build, level, callbacks, pc, acc, pending, posts, console,
                 accepted, nextId, now, crashed>>

\* The shutdown case of the select loop: `case <-ctx.Done()` / `case <-done`
Done(s) ==
  /\ ~crashed /\ InSelect(s) /\ HasShutdown(s)
  /\ sig[s] = "signalled"
  /\ sig' = [sig EXCEPT ![s] = "observed"]
  /\ StartFlush(s, TRUE)
  /\ UNCHANGED <<xvars, build, level, callbacks, pending, console, accepted,
                 nextId, now>>

\* The transport returns: the rest of sendAlerts / sendLogs / sendBatch, and
\* the `return` of run() after the shutdown flush.  The accumulator of a
\* channel sink is a local of run(): it is gone once run() has returned.
SendReturns(s, resp) ==
  /\ ~crashed /\ pc[s] = "sending"
  /\ \E i \in InFlight(s) :
       LET p   == posts[s][i]
           st  == IF SendOk(s, resp) THEN Touched
                  ELSE Emit(s, Touched, Fallback(s, p.body))
           left == IF s \in ChanSinks
                   THEN (IF p.final THEN <<>> ELSE AfterFlush(s, st.acc[s]))
                   ELSE st.acc[s]
       IN  /\ posts' = [posts EXCEPT ![s][i].state =
                          IF SendOk(s, resp) THEN "ok" ELSE "failed"]
           /\ acc' = [st.acc EXCEPT ![s] = left]
           /\ pending' = st.pending
           /\ console' = st.console
           /\ accepted' = st.accepted
           /\ pc' = [pc EXCEPT ![s] = IF p.final THEN "stopped" ELSE "select"]
  /\ UNCHANGED <<xvars, build, level, callbacks, sig, nextId, now, crashed>>

\* The inputs Next draws for a direct Alert() call
CallNames     == Names
CallSummaries == {"full"}
CallTimes     == {0}
CallLabels    == {{}}

Next ==
  \/ \E lvl \in LogLevels : Log(lvl)
  \/ \E s \in Sinks, lvl \in LogLevels : LokiCallback(s, lvl)
  \/ \E name \in CallNames, summary \in CallSummaries, startsAt \in CallTimes,
        endsAt \in CallTimes, hasLabels \in BOOLEAN, labelsArg \in CallLabels :
       AlertCall(name, summary, startsAt, endsAt, hasLabels, labelsArg)
  \/ \E s \in Sinks : Receive(s)
  \/ \E s \in Sinks : Tick(s)
  \/ \E s \in Sinks : Cancel(s)
  \/ StopLoki
  \/ \E s \in Sinks : Done(s)
  \/ \E s \in Sinks, resp \in Responses : SendReturns(s, resp)

Spec == Init /\ [][Next]_vars

\* ----------------------------------------------------------------- setup
\* The setup calls of the network sinks and their readiness probe.  A call
\* that probes is split at its GET requests.
MaxSetups == 2      \* setup calls per run

Hosts     == {"", "h1", "h2"}
Instances == {"", "i1", "i2"}
Services  == {"", "s1"}
\* The baseLabels argument: 0 is nil, 1 is a map the caller owns
LabelRefs == {0, 1}
ProbeResponses == {r \in Responses : r.err \/ r.code \in {StatusOK, 500}}

\* The setup calls a build offers
SetupApis(b) ==
  CASE b = "v1" -> {"WithLoki"}
    [] b = "v2" -> {"WithLokiCtx", "WithAlertManager"}
    [] b = "v3" -> {"UseLoki", "WithAlertManager"}

\* The sink a setup call sets up
SinkOf(api) ==
  CASE api = "WithLoki"         -> "lokiOld"
    [] api = "WithLokiCtx"      -> "lokiCtx"
    [] api = "WithAlertManager" -> "alert"
    [] api = "UseLoki"          -> "useLoki"

\* `if attempts > N { return error }` of waitForAlertmanager / waitForLoki
AttemptLimit(api) ==
  CASE api = "WithAlertManager" -> 5
    [] api = "WithLoki"         -> 5
    [] api = "WithLokiCtx"      -> 1

InitSetup ==
  /\ build \in Builds
  /\ level = LevelInfo
  /\ callbacks = [l \in LogLevels |-> <<>>]
  /\ pc = [s \in Sinks |-> "off"]
  /\ acc = [s \in Sinks |-> <<>>]
  /\ pending = [s \in Sinks |-> {}]
  /\ sig = [s \in Sinks |-> "none"]
  /\ posts = [s \in Sinks |-> <<>>]
  /\ console = [s \in Sinks \cup {"app"} |-> <<>>]
  /\ accepted = [s \in Sinks |-> <<>>]
  /\ nextId = 1
  /\ now = 1
  /\ crashed = FALSE
  /\ ret = NoRet
  /\ call = NoCall
  /\ queue = NoQueue
  /\ maps = <<{<<"team", "ops">>}>>
  /\ flushers = [s \in Sinks |-> 0]
  /\ stringers = {}
  /\ delivered = <<>>

Returned(api, err, option, log) ==
  [api |-> api, err |-> err, option |-> option, log |-> log]

\* WithAlertManager up to the call of waitForAlertmanager
WithAlertManager(host, instance, service, labelsRef) ==
  /\ call = NoCall /\ "WithAlertManager" \in SetupApis(build)
  /\ nextId <= MaxSetups
  /\ nextId' = nextId + 1
  /\ LET heap == IF labelsRef = 0 THEN Append(maps, {}) ELSE maps
         ref  == IF labelsRef = 0 THEN Len(heap) ELSE labelsRef
         fail(e) == /\ ret' = Returned("WithAlertManager", e, FALSE, <<>>)
                    /\ UNCHANGED <<call, maps>>
     IN  IF host = "" THEN fail("alertmanagerHost must be set")
         ELSE IF instance = "" THEN fail("instance must be set")
         ELSE IF service = "" THEN fail("service must be set")
         ELSE /\ maps' = [heap EXCEPT ![ref] =
                            MapSet(MapSet(@, "instance", instance),
                                   "service", service)]
              /\ call' = [api |-> "WithAlertManager", host |-> host,
                          labels |-> ref, attempts |-> 0, log |-> <<>>]
              /\ ret' = NoRet
  /\ UNCHANGED <<build, level, callbacks, pc, acc, pending, sig, posts,
                 console, accepted, now, crashed, queue, flushers, stringers,
                 delivered>>

\* WithLoki (both generations) up to the call of waitForLoki
WithLoki(api, host, server, job) ==
  /\ call = NoCall /\ api \in {"WithLoki", "WithLokiCtx"} \cap SetupApis(build)
  /\ nextId <= MaxSetups
  /\ nextId' = nextId + 1
  /\ LET fail(e) == /\ ret' = Returned(api, e, FALSE, <<>>)
                    /\ UNCHANGED call
     IN  IF host = "" THEN fail("lokiHost must be set")
         ELSE IF server = "" THEN fail("server must be set")
         ELSE IF job = "" THEN fail("job must be set")
         ELSE /\ call' = [api |-> api, host |-> host, labels |-> 0,
                          attempts |-> 0, log |-> <<>>]
              /\ ret' = NoRet
  /\ UNCHANGED <<build, level, callbacks, pc, acc, pending, sig, posts,
                 console, accepted, now, crashed, queue, maps, flushers,
                 stringers, delivered>>

\* One pass of the loop of waitForAlertmanager / waitForLoki: the GET and
\* what follows it up to the next GET or the return.
\*   err != nil         -> attempts += 1, continue
\*   StatusCode != 200  -> attempts += 1, sleep, continue
\*   otherwise          -> return nil
\* and at the top of the loop: attempts > limit -> return error
Counted_statusOnly(attempts, resp) ==
  IF ~resp.err /\ resp.code # StatusOK THEN attempts + 1 ELSE attempts

Counted(attempts, resp) ==
  IF resp.err \/ resp.code # StatusOK THEN attempts + 1 ELSE attempts

\* The rest of the setup call after the probe returned `err`
FinishSetup(api, err, log) ==
  IF err # "" THEN
    /\ ret' = Returned(api, err, FALSE, log)
    /\ UNCHANGED <<queue, flushers, pc>>
  ELSE IF api = "WithAlertManager" THEN
    IF queue.set THEN
      /\ ret' = Returned(api, "alertmanager already set up", FALSE, log)
      /\ UNCHANGED <<queue, flushers, pc>>
    ELSE
      /\ queue' = [set |-> TRUE, host |-> call.host, labels |-> call.labels]
      /\ flushers' = [flushers EXCEPT !["alert"] = @ + 1]
      /\ pc' = [pc EXCEPT !["alert"] = "select"]
      /\ ret' = Returned(api, "", FALSE, log)
  ELSE
    /\ ret' = Returned(api, "", TRUE, log)
    /\ UNCHANGED <<queue, flushers, pc>>

ProbeGet(resp) ==
  /\ call # NoCall
  /\ LET n   == Counted(call.attempts, resp)
         log == Append(call.log, resp)
     IN  IF n = call.attempts THEN
           /\ FinishSetup(call.api, "", log)
           /\ call' = NoCall
         ELSE IF n > AttemptLimit(call.api) THEN
           /\ FinishSetup(call.api, "could not connect", log)
           /\ call' = NoCall
         ELSE
           /\ call' = [call EXCEPT !.attempts = n, !.log = log]
           /\ UNCHANGED <<ret, queue, flushers, pc>>
  /\ UNCHANGED <<build, level, callbacks, acc, pending, sig, posts, console,
                 accepted, nextId, now, crashed, maps, stringers, delivered>>

\* The Option WithLoki returned, applied: it registers the callbacks of the
\* default levels and starts run().
ApplyOption ==
  /\ call = NoCall /\ ret.api \in {"WithLoki", "WithLokiCtx"} /\ ret.option
  /\ LET s == SinkOf(ret.api)
     IN  /\ callbacks' = [l \in LogLevels |-> Append(callbacks[l], s)]
         /\ flushers' = [flushers EXCEPT ![s] = @ + 1]
         /\ pc' = [pc EXCEPT ![s] = "select"]
  /\ ret' = [ret EXCEPT !.option = FALSE]
  /\ UNCHANGED <<build, level, acc, pending, sig, posts, console, accepted,
                 nextId, now, crashed, call, queue, maps, stringers, delivered>>

\* UseLoki: no probe; it resets the buffer, starts processBatches and
\* registers one callback per level.
UseLoki(url) ==
  /\ call = NoCall /\ "UseLoki" \in SetupApis(build)
  /\ nextId <= MaxSetups
  /\ nextId' = nextId + 1
  /\ IF url = "" THEN
       /\ ret' = Returned("UseLoki", "Loki URL cannot be empty", FALSE, <<>>)
       /\ UNCHANGED <<acc, flushers, pc, callbacks>>
     ELSE
       /\ acc' = [acc EXCEPT !["useLoki"] = <<>>]
       /\ flushers' = [flushers EXCEPT !["useLoki"] = @ + 1]
       /\ pc' = [pc EXCEPT !["useLoki"] = "select"]
       /\ callbacks' = [l \in LogLevels |-> Append(callbacks[l], "useLoki")]
       /\ ret' = Returned("UseLoki", "", FALSE, <<>>)
  /\ UNCHANGED <<build, level, pending, sig, posts, console, accepted, now,
                 crashed, call, queue, maps, stringers, delivered>>

NextSetup ==
  \/ \E host \in Hosts, instance \in Instances, service \in Services,
        labelsRef \in LabelRefs :
       WithAlertManager(host, instance, service, labelsRef)
  \/ \E api \in {"WithLoki", "WithLokiCtx"}, host \in Hosts,
        server \in Services, job \in Services :
       WithLoki(api, host, server, job)
  \/ \E resp \in ProbeResponses : ProbeGet(resp)
  \/ ApplyOption
  \/ \E url \in Hosts : UseLoki(url)

SpecSetup == InitSetup /\ [][NextSetup]_vars

\* ----------------------------------------------------------------- Alert
\* Direct calls of Alert() with the whole range of arguments, against the
\* flusher of the AlertQueue.  Alert() keeps the caller's labels map in the
\* alert it enqueues, so the maps are objects of the heap: `maps[1]` is the
\* baseLabels of the queue, `maps[2]` a map the caller owns and may pass to
\* several calls.  An item carries the reference of its map next to the
\* map's content, and a write through a reference reaches every item that
\* holds it.  It also carries, as history, the name argument of its call and
\* what the labels argument held when the call was made.
MaxAlerts == 2      \* Alert calls per run

AlertBuilds  == {"v1", "v2"}    \* alertmanager.go is the same in v2 and v3
AlertNames   == Names \cup {"cpu"}
\* <<startsAt, endsAt>>; 0 is the zero time.Time
AlertTimes   == {<<0, 0>>, <<0, 1>>, <<2, 0>>, <<1, 2>>, <<2, 1>>}
CallerLabels == {<<"instance", "mine">>, <<"team", "ops">>}
\* The labels argument: 0 is nil, 2 is the caller's map
AlertLabelRefs == {0, 2}

InitAlert ==
  /\ build \in AlertBuilds
  /\ ret = NoRet
  /\ call = NoCall
  /\ queue = IF "alert" \in ActiveSinks(build)
             THEN [set |-> TRUE, host |-> "h1", labels |-> 1] ELSE NoQueue
  /\ maps = <<BaseLabels, CallerLabels>>
  /\ flushers = [s \in Sinks |-> IF s = "alert" /\ s \in ActiveSinks(build)
                                  THEN 1 ELSE 0]
  /\ stringers = {}
  /\ delivered = <<>>
  /\ level = LevelInfo
  /\ callbacks = [l \in LogLevels |-> <<>>]
  /\ pc = [s \in Sinks |-> IF s = "alert" /\ s \in ActiveSinks(build)
                           THEN "select" ELSE "off"]
  /\ acc = [s \in Sinks |-> <<>>]
  /\ pending = [s \in Sinks |-> {}]
  /\ sig = [s \in Sinks |-> "none"]
  /\ posts = [s \in Sinks |-> <<>>]
  /\ console = [s \in Sinks \cup {"app"} |-> <<>>]
  /\ accepted = [s \in Sinks |-> <<>>]
  /\ nextId = 1
  /\ now = 1
  /\ crashed = FALSE

\* labels[key] = v through reference k, seen by an item that holds k
WriteThrough(e, k, key, v) ==
  IF "ref" \in DOMAIN e /\ e.ref = k
  THEN [e EXCEPT !.labels = MapSet(@, key, v)] ELSE e

\* Alert(), as a call of the API: the nil check, the writes into the
\* caller's maps, the checks, and the send on the channel (the item waits in
\* `pending` until the flusher receives it, and the call returns then).
AlertApi(name, summary, startsAt, endsAt, labelsRef) ==
  /\ ~crashed /\ nextId <= MaxAlerts
  /\ nextId' = nextId + 1
  /\ \E dt \in TimeSteps :
       LET heap == IF labelsRef = 0 THEN Append(maps, {}) ELSE maps
           k    == IF labelsRef = 0 THEN Len(heap) ELSE labelsRef
           r    == Alert(queue.set, nextId, name, summary, startsAt, endsAt,
                         TRUE, heap[k], now + dt)
           \* line 83 is reached when the queue is set and the name is not empty
           wrote == queue.set /\ name # ""
       IN  /\ now' = now + dt
           /\ ret' = [api |-> "Alert", err |-> r.err, id |-> nextId,
                      name |-> name, summary |-> summary,
                      startsAt |-> startsAt, endsAt |-> endsAt,
                      labels |-> maps[IF labelsRef = 0 THEN 2 ELSE labelsRef],
                      nilLabels |-> labelsRef = 0]
           /\ maps' = IF wrote
                      THEN [heap EXCEPT ![k] = MapSet(@, "alertname", name)]
                      ELSE maps
           /\ acc' = IF wrote
                     THEN [acc EXCEPT !["alert"] =
                             [i \in DOMAIN @ |->
                                WriteThrough(@[i], k, "alertname", name)]]
                     ELSE acc
           /\ pending' =
                LET seen == IF wrote
                            THEN {WriteThrough(e, k, "alertname", name) :
                                    e \in pending["alert"]}
                            ELSE pending["alert"]
                IN  [pending EXCEPT !["alert"] =
                       IF r.send
                       THEN seen \cup {r.item @@ [ref |-> k, name |-> name,
                                                  given |-> heap[k]]}
                       ELSE seen]
  /\ UNCHANGED <<build, level, callbacks, pc, sig, posts, console, accepted,
                 crashed, call, queue, flushers, stringers, delivered>>

\* The ticker case of AlertQueue.run with the heap: sendAlerts writes the
\* base labels with `alert.Labels[k] = v` into the map every alert of the
\* batch refers to, which is the map its Alert call was given; an alert that
\* waits in the channel send with the same map sees the write.
AlertTick ==
  /\ ~crashed /\ InSelect("alert")
  /\ StartFlush("alert", FALSE)
  /\ LET batch   == acc["alert"]
         flushed == Len(batch) > 0 /\ ~NilMapWrite(batch)
         refs    == {batch[i].ref : i \in {j \in DOMAIN batch :
                                            "ref" \in DOMAIN batch[j]}}
     IN  /\ maps' = IF flushed
                    THEN [k \in DOMAIN maps |->
                            IF k \in refs THEN MapMerge(maps[k], BaseLabels)
                            ELSE maps[k]]
                    ELSE maps
         /\ pending' =
              IF flushed
              THEN [pending EXCEPT !["alert"] =
                      {IF "ref" \in DOMAIN e /\ e.ref \in refs
                       THEN [e EXCEPT !.labels = MapMerge(@, BaseLabels)]
                       ELSE e : e \in @}]
              ELSE pending
  /\ UNCHANGED <<build, level, callbacks, sig, console, accepted, nextId, now,
                 ret, call, queue, flushers, stringers, delivered>>

NextAlert ==
  \/ \E name \in AlertNames, summary \in Summaries, times \in AlertTimes,
        labelsRef \in AlertLabelRefs :
       AlertApi(name, summary, times[1], times[2], labelsRef)
  \/ Receive("alert")
  \/ AlertTick
  \/ \E resp \in Responses : SendReturns("alert", resp)

SpecAlert == InitAlert /\ [][NextAlert]_vars

\* ------------------------------------------------------------ dispatcher
\* The Logger of logger.go:1-196 on its own: SetLevel, RegisterCallback,
\* RegisterStringer and the leveled log calls with their attribute lists.
\* A value is its dynamic type and its content; a string is a sequence of
\* tokens, so that a converter's output can be told from its input.  The
\* untyped nil has no dynamic type: reflect.TypeOf gives the nil Type, "nil".
MaxOps  == 3        \* calls of the Logger's API per run
MaxArgs == 2        \* length of the attribute list of a log call

DispatchLevels == {LevelDebug, LevelInfo, LevelError}
Captures   == {"cb1", "cb2"}      \* callbacks that record what they get
Converters == {"f", "g"}
\* The type parameter of RegisterStringer; error is an interface type
RegTypes   == {"string", "S", "*S", "error"}
InterfaceTypes == {"error"}

NilValue == [t |-> "nil", v |-> <<>>]
ArgValues ==
  {[t |-> "string", v |-> <<>>], [t |-> "string", v |-> <<"k">>],
   [t |-> "S", v |-> <<"s">>], [t |-> "*S", v |-> <<>>], NilValue}

RECURSIVE SeqsUpTo(_, _)
SeqsUpTo(S, n) ==
  IF n = 0 THEN {<<>>}
  ELSE LET shorter == SeqsUpTo(S, n - 1)
       IN  shorter \cup {Append(q, x) : q \in shorter, x \in S}

ArgLists == SeqsUpTo(ArgValues, MaxArgs)

\* reflect.TypeOf(zero) for `var zero T`: nil for an interface type
TypeKey(T) == IF T \in InterfaceTypes THEN "nil" ELSE T

\* v.Kind() == reflect.Ptr && v.IsNil()
IsNilPointer(a) == a.t = "*S" /\ a.v = <<>>

\* `v.(T)`: the dynamic type is T, or implements the interface T (*S has
\* the Error method).  A nil interface value is no T.
IsA(a, T) == a.t = T \/ (T \in InterfaceTypes /\ a.t = "*S")

\* The function RegisterStringer stores: the converter if the value is a T,
\* fmt.Sprintf("%v", v) otherwise ("<nil>" for nil).
Wrapped(T, conv, a) ==
  IF IsA(a, T)
  THEN [t |-> "string", v |-> <<conv>> \o a.v]
  ELSE [t |-> "string", v |-> <<"%v">> \o a.v]

ConvertArg(a) ==
  IF IsNilPointer(a) THEN NilValue
  ELSE IF \E p \in stringers : p[1] = a.t
  THEN LET p == CHOOSE q \in stringers : q[1] = a.t
       IN  Wrapped(p[2][1], p[2][2], a)
  ELSE a

convertArgsToStrings(args) == [i \in DOMAIN args |-> ConvertArg(args[i])]

\* The checks at the head of Logger.log; keys sit at the odd positions
BadArgs_noEmptyKey(args) ==
  \/ Len(args) % 2 # 0
  \/ \E i \in DOMAIN args : i % 2 = 1 /\ args[i].t # "string"

BadArgs(args) ==
  \/ Len(args) % 2 # 0
  \/ \E i \in DOMAIN args :
       i % 2 = 1 /\ (args[i].t # "string" \/ args[i].v = <<>>)

InitLog ==
  /\ build = "v3"
  /\ level = LevelInfo
  /\ callbacks = [l \in DispatchLevels |-> <<>>]
  /\ pc = [s \in Sinks |-> "off"]
  /\ acc = [s \in Sinks |-> <<>>]
  /\ pending = [s \in Sinks |-> {}]
  /\ sig = [s \in Sinks |-> "none"]
  /\ posts = [s \in Sinks |-> <<>>]
  /\ console = [s \in Sinks \cup {"app"} |-> <<>>]
  /\ accepted = [s \in Sinks |-> <<>>]
  /\ nextId = 1
  /\ now = 1
  /\ crashed = FALSE
  /\ ret = NoRet
  /\ call = NoCall
  /\ queue = NoQueue
  /\ maps = <<>>
  /\ flushers = [s \in Sinks |-> 0]
  /\ stringers = {}
  /\ delivered = <<>>

SetLevel(l) ==
  /\ ~crashed /\ nextId <= MaxOps
  /\ nextId' = nextId + 1
  /\ level' = l
  /\ ret' = [api |-> "SetLevel", err |-> ""]
  /\ delivered' = <<>>
  /\ UNCHANGED <<build, callbacks, pc, acc, pending, sig, posts, console,
                 accepted, now, crashed, call, queue, maps, flushers, stringers>>

RegisterCallback(l, cb) ==
  /\ ~crashed /\ nextId <= MaxOps
  /\ nextId' = nextId + 1
  /\ callbacks' = [callbacks EXCEPT ![l] = Append(@, cb)]
  /\ ret' = [api |-> "RegisterCallback", err |-> ""]
  /\ delivered' = <<>>
  /\ UNCHANGED <<build, level, pc, acc, pending, sig, posts, console,
                 accepted, now, crashed, call, queue, maps, flushers, stringers>>

RegisterStringer(T, conv) ==
  /\ ~crashed /\ nextId <= MaxOps
  /\ nextId' = nextId + 1
  /\ stringers' = MapSet(stringers, TypeKey(T), <<T, conv>>)
  /\ ret' = [api |-> "RegisterStringer", err |-> ""]
  /\ delivered' = <<>>
  /\ UNCHANGED <<build, level, callbacks, pc, acc, pending, sig, posts, console,
                 accepted, now, crashed, call, queue, maps, flushers>>

\* Debug/Info/Error with an attribute list: the checks (a failed one
\* panics), then the level filter, the conversion and the calls.
LogCall(lvl, args) ==
  /\ ~crashed /\ nextId <= MaxOps
  /\ nextId' = nextId + 1
  /\ IF BadArgs(args) THEN
       /\ crashed' = TRUE
       /\ ret' = [api |-> "log", err |-> "panic", lvl |-> lvl, args |-> args]
       /\ delivered' = <<>>
       /\ UNCHANGED <<acc, pending, console, accepted>>
     ELSE
       LET e  == [id |-> nextId, ts |-> now, lvl |-> lvl,
                  args |-> convertArgsToStrings(args)]
           st == Dispatch(Touched @@ [delivered |-> <<>>], e)
       IN  /\ delivered' = st.delivered
           /\ acc' = st.acc /\ pending' = st.pending
           /\ console' = st.console /\ accepted' = st.accepted
           /\ ret' = [api |-> "log", err |-> "", lvl |-> lvl, args |-> args]
           /\ UNCHANGED crashed
  /\ UNCHANGED <<build, level, callbacks, pc, sig, posts, now, call, queue,
                 maps, flushers, stringers>>

NextLog ==
  \/ \E l \in DispatchLevels : SetLevel(l)
  \/ \E l \in DispatchLevels, cb \in Captures : RegisterCallback(l, cb)
  \/ \E T \in RegTypes, conv \in Converters : RegisterStringer(T, conv)
  \/ \E lvl \in DispatchLevels, args \in ArgLists : LogCall(lvl, args)

SpecLog == InitLog /\ [][NextLog]_vars

\* --------------------------------------------------------------- encoder
\* The encoders of the log sinks as functions of the batch.  A clock tick
\* is a millisecond; a decimal string is the sequence of its digits.
MaxBatch == 2       \* entries of the batch handed to an encoder

LevelWarn == 4
AllLevels == {LevelDebug, LevelInfo, LevelWarn, LevelError}
NanosPerTick == 1000000
LogSinks == {"lokiOld", "lokiCtx", "useLoki"}

\* slog.Level.String() for the four named levels
LevelString(l) ==
  CASE l = LevelDebug -> "DEBUG"
    [] l = LevelInfo  -> "INFO"
    [] l = LevelWarn  -> "WARN"
    [] l = LevelError -> "ERROR"

\* logEntry.MarshalJSON of logger.go: WARN is written as WARNING
MarshalLevel_warnAsInfo(l) ==
  IF LevelString(l) = "WARN" THEN "INFO" ELSE LevelString(l)

MarshalLevel(l) ==
  IF LevelString(l) = "WARN" THEN "WARNING" ELSE LevelString(l)

\* levelToString of the UseLoki sink
levelToString(l) ==
  CASE l = LevelDebug -> "debug"
    [] l = LevelInfo  -> "info"
    [] l = LevelWarn  -> "warn"
    [] l = LevelError -> "error"
    [] OTHER          -> "unknown"

\* Timestamp.UnixNano()
UnixNano(t) == t * NanosPerTick

\* strconv.FormatInt(n, 10) / fmt.Sprintf("%d", n) for n >= 0
RECURSIVE FormatInt(_)
FormatInt(n) ==
  IF n < 10 THEN <<n>> ELSE Append(FormatInt(n \div 10), n % 10)

\* The labels of the sink: {"source": server, "job": job} of a
\* LokiNotifier, cfg.Labels with the default source of UseLoki
StreamLabels(s) ==
  IF s = "useLoki" THEN {<<"source", "application">>}
  ELSE {<<"source", "srv">>, <<"job", "j1">>}

\* The line of an entry: the JSON object of a LokiNotifier entry (loki.go
\* has no MarshalJSON, its level is written by slog.Level), the formatted
\* message of UseLoki
Line(s, e) ==
  CASE s = "lokiOld" -> [level |-> LevelString(e.lvl), message |-> e.id]
    [] s = "lokiCtx" -> [level |-> MarshalLevel(e.lvl), message |-> e.id]
    [] s = "useLoki" -> [level |-> "", message |-> e.id]

Value(s, e) == <<FormatInt(UnixNano(e.ts)), Line(s, e)>>

\* `streamsByLevel[entry.level] = append(streamsByLevel[entry.level], ...)`
\* over the entries in order
GroupValues_all(s, batch, l) == [i \in DOMAIN batch |-> Value(s, batch[i])]

GroupValues(s, batch, l) ==
  LET mine == SelectSeq(batch, LAMBDA e : e.lvl = l)
  IN  [i \in DOMAIN mine |-> Value(s, mine[i])]

\* The payload.  A LokiNotifier writes one stream with its labels; sendBatch
\* writes one stream per level of the batch, in the order `order` in which
\* the range over the map streamsByLevel yields the levels.
Encode(s, batch, order) ==
  IF s = "useLoki"
  THEN [streams |->
          [k \in DOMAIN order |->
             [stream |-> MapSet(StreamLabels(s), "level", levelToString(order[k])),
              values |-> GroupValues(s, batch, order[k])]]]
  ELSE [streams |->
          <<[stream |-> StreamLabels(s),
             values |-> [i \in DOMAIN batch |-> Value(s, batch[i])]]>>]

\* The orders in which a range over a map with the key set K may run
Orders(K) ==
  {q \in [1..Cardinality(K) -> K] :
     \A i, j \in DOMAIN q : i # j => q[i] # q[j]}

LevelsOf(batch) == {batch[i].lvl : i \in DOMAIN batch}

Entries == {LogEntry(id, ts, lvl) : id \in 1..2, ts \in 1..2, lvl \in AllLevels}

\* The encoders are called with a batch that is not empty
Batches == {q \in SeqsUpTo(Entries, MaxBatch) : Len(q) >= 1}

\* The batch the flusher hands to the encoder is drawn here
InitEncode ==
  /\ build \in Builds
  /\ level = LevelInfo
  /\ callbacks = [l \in LogLevels |-> <<>>]
  /\ pc = [s \in Sinks |-> "off"]
  /\ acc = [s \in Sinks |-> <<>>]
  /\ pending = [s \in Sinks |-> {}]
  /\ sig = [s \in Sinks |-> "none"]
  /\ posts = [s \in Sinks |-> <<>>]
  /\ console = [s \in Sinks \cup {"app"} |-> <<>>]
  /\ accepted = [s \in Sinks |-> <<>>]
  /\ nextId = 1
  /\ now = 1
  /\ crashed = FALSE
  /\ ret = NoRet
  /\ \E batch \in Batches : call = [api |-> "send", batch |-> batch]
  /\ queue = NoQueue
  /\ maps = <<>>
  /\ flushers = [s \in Sinks |-> 0]
  /\ stringers = {}
  /\ delivered = <<>>

\* send / sendBatch up to the request body, for the log sink of the build
EncodeBatch(s, order) ==
  /\ s \in LogSinks \cap ActiveSinks(build)
  /\ ret = NoRet
  /\ order \in Orders(LevelsOf(call.batch))
  /\ ret' = [api |-> "send", err |-> "", sink |-> s, batch |-> call.batch,
             payload |-> Encode(s, call.batch, order)]
  /\ UNCHANGED <<build, level, callbacks, pc, acc, pending, sig, posts,
                 console, accepted, nextId, now, crashed, call, queue, maps,
                 flushers, stringers, delivered>>

NextEncode ==
  \E s \in LogSinks :
    \E order \in Orders(LevelsOf(call.batch)) : EncodeBatch(s, order)

SpecEncode == InitEncode /\ [][NextEncode]_vars

\* ------------------------------------------------------------ re-entrancy
\* Logger.log step by step on one goroutine, with the Logger's RWMutex and
\* callbacks that call back into the package.  `call` holds the goroutine:
\* the read locks it owns and its stack of log() frames.  A write lock is
\* taken and released within one step; sync.RWMutex is not re-entrant, so
\* Lock() needs the read locks of the goroutine itself to be released.
MaxCalls == 2       \* top-level log calls per run
MaxRegs  == 2       \* top-level RegisterCallback calls per run

\* What a registered callback does when it is invoked
Reentrant == {"reg", "set", "str", "relog"}
\* The registrations the application makes; a callback that logs an Error
\* is not registered on Error.
Registrations ==
  {<<l, cb>> \in LogLevels \X ({"cb1"} \cup Reentrant) :
     ~(l = LevelError /\ cb = "relog")}

\* `since` is history: the number of the first log call that starts after
\* the registration.
Registered(cb, since) == [cb |-> cb, since |-> since]
Frame(id, lvl) == [id |-> id, lvl |-> lvl, phase |-> "rlock", cbs |-> <<>>, i |-> 1]

Top == call.stack[Len(call.stack)]
SetTop(f) == [call.stack EXCEPT ![Len(call.stack)] = f]
Pop == SubSeq(call.stack, 1, Len(call.stack) - 1)

\* l.mu.Lock() returns
LockFree == call.readers = 0

\* The read locks the goroutine owns once log() has copied the callbacks:
\* l.mu.RUnlock() before the calls.
AfterCopy_deferred(readers) == readers

AfterCopy(readers) == readers - 1

sinkvars == <<build, pc, acc, pending, sig, posts, console, accepted, now,
              crashed, queue, maps, flushers>>

InitReentry ==
  /\ build = "v3"
  /\ level = LevelInfo
  /\ callbacks = [l \in LogLevels |-> <<>>]
  /\ pc = [s \in Sinks |-> "off"]
  /\ acc = [s \in Sinks |-> <<>>]
  /\ pending = [s \in Sinks |-> {}]
  /\ sig = [s \in Sinks |-> "none"]
  /\ posts = [s \in Sinks |-> <<>>]
  /\ console = [s \in Sinks \cup {"app"} |-> <<>>]
  /\ accepted = [s \in Sinks |-> <<>>]
  /\ nextId = 1
  /\ now = 1
  /\ crashed = FALSE
  /\ ret = NoRet
  /\ call = [api |-> "log", readers |-> 0, calls |-> 0, regs |-> 0, stack |-> <<>>]
  /\ queue = NoQueue
  /\ maps = <<>>
  /\ flushers = [s \in Sinks |-> 0]
  /\ stringers = {}
  /\ delivered = <<>>

\* RegisterCallback called by the application between two log calls
Register(l, cb) ==
  /\ call.stack = <<>> /\ call.regs < MaxRegs
  /\ LockFree
  /\ callbacks' = [callbacks EXCEPT ![l] = Append(@, Registered(cb, nextId))]
  /\ call' = [call EXCEPT !.regs = @ + 1]
  /\ ret' = [api |-> "RegisterCallback", err |-> ""]
  /\ UNCHANGED <<sinkvars, level, nextId, stringers, delivered>>

\* Info/Error called by the application: the checks pass (no attributes)
LogEnter(lvl) ==
  /\ call.stack = <<>> /\ call.calls < MaxCalls
  /\ call' = [call EXCEPT !.calls = @ + 1, !.stack = <<Frame(nextId, lvl)>>]
  /\ nextId' = nextId + 1
  /\ UNCHANGED <<sinkvars, level, callbacks, stringers, delivered, ret>>

\* l.mu.RLock()
LogRLock ==
  /\ call.stack # <<>> /\ Top.phase = "rlock"
  /\ call' = [call EXCEPT !.readers = @ + 1,
                          !.stack = SetTop([Top EXCEPT !.phase = "copy"])]
  /\ UNCHANGED <<sinkvars, level, callbacks, nextId, stringers, delivered, ret>>

\* The level filter and the copy of the callback list, then RUnlock
LogCopy ==
  /\ call.stack # <<>> /\ Top.phase = "copy"
  /\ IF level > Top.lvl THEN
       /\ call' = [call EXCEPT !.readers = @ - 1, !.stack = Pop]
       /\ ret' = [api |-> "log", err |-> "", id |-> Top.id, lvl |-> Top.lvl,
                  filtered |-> TRUE]
     ELSE
       /\ call' = [call EXCEPT
                     !.readers = AfterCopy(@),
                     !.stack = SetTop([Top EXCEPT !.phase = "convert",
                                                  !.cbs = callbacks[Top.lvl]])]
       /\ UNCHANGED ret
  /\ UNCHANGED <<sinkvars, level, callbacks, nextId, stringers, delivered>>

\* convertArgsToStrings: RLock, the conversion of the (empty) attribute
\* list, RUnlock
LogConvert ==
  /\ call.stack # <<>> /\ Top.phase = "convert"
  /\ call' = [call EXCEPT !.stack = SetTop([Top EXCEPT !.phase = "run"])]
  /\ UNCHANGED <<sinkvars, level, callbacks, nextId, stringers, delivered, ret>>

\* `cb(msg, convertedArgs...)` for the next callback of the copy.  A
\* callback that needs the write lock runs to its end only if Lock()
\* returns; a callback that logs pushes a frame.
CallbackRuns ==
  /\ call.stack # <<>> /\ Top.phase = "run" /\ Top.i <= Len(Top.cbs)
  /\ LET cb   == Top.cbs[Top.i].cb
         next == [Top EXCEPT !.i = @ + 1]
     IN  /\ cb \in {"reg", "set", "str"} => LockFree
         /\ delivered' = Append(delivered, [ev |-> Top.id, cb |-> cb])
         /\ callbacks' =
              IF cb = "reg"
              THEN [callbacks EXCEPT ![Top.lvl] = Append(@, Registered("cb1", nextId))]
              ELSE callbacks
         /\ level' = IF cb = "set" THEN LevelError ELSE level
         /\ stringers' = IF cb = "str" THEN MapSet(stringers, TypeKey("S"), <<"S", "f">>)
                         ELSE stringers
         /\ nextId' = IF cb = "relog" THEN nextId + 1 ELSE nextId
         /\ call' = [call EXCEPT !.stack =
                       IF cb = "relog"
                       THEN Append(SetTop(next), Frame(nextId, LevelError))
                       ELSE SetTop(next)]
  /\ UNCHANGED <<sinkvars, ret>>

\* The loop over the copy is over: log() returns
LogReturn ==
  /\ call.stack # <<>> /\ Top.phase = "run" /\ Top.i > Len(Top.cbs)
  /\ call' = [call EXCEPT !.stack = Pop]
  /\ ret' = [api |-> "log", err |-> "", id |-> Top.id, lvl |-> Top.lvl,
             filtered |-> FALSE]
  /\ UNCHANGED <<sinkvars, level, callbacks, nextId, stringers, delivered>>

NextReentry ==
  \/ \E r \in Registrations : Register(r[1], r[2])
  \/ \E lvl \in LogLevels : LogEnter(lvl)
  \/ LogRLock
  \/ LogCopy
  \/ LogConvert
  \/ CallbackRuns
  \/ LogReturn

SpecReentry == InitReentry /\ [][NextReentry]_vars

\* ---------------------------------------------------------------- buffer
\* The buffer of UseLoki with its mutex, statement by statement: producer
\* goroutines whose callback waits in logBuffer.mu.Lock(), and sendBatch,
\* which reads and resets logBuffer.entries under the mutex and releases it
\* before it encodes and sends.  `call` holds the owner of the mutex and the
\* local `entries` of sendBatch.
MaxAppends == 3     \* log calls of the producers per run

Producers == {"p1", "p2"}

\* logBuffer.mu.Lock() returns
MuFree_noLock == TRUE

MuFree == call.mu = "none"

\* The owner of the mutex once sendBatch has reset the buffer:
\* logBuffer.mu.Unlock() before the encoding.
AfterReset_deferred(mu) == mu

AfterReset(mu) == "none"

InitBuffer ==
  /\ build = "v3"
  /\ level = LevelInfo
  /\ callbacks = [l \in LogLevels |-> <<"useLoki">>]
  /\ pc = [s \in Sinks |-> IF s = "useLoki" THEN "select" ELSE "off"]
  /\ acc = [s \in Sinks |-> <<>>]
  /\ pending = [s \in Sinks |-> {}]
  /\ sig = [s \in Sinks |-> "none"]
  /\ posts = [s \in Sinks |-> <<>>]
  /\ console = [s \in Sinks \cup {"app"} |-> <<>>]
  /\ accepted = [s \in Sinks |-> <<>>]
  /\ nextId = 1
  /\ now = 1
  /\ crashed = FALSE
  /\ ret = NoRet
  /\ call = [api |-> "sendBatch", mu |-> "none", entries |-> <<>>]
  /\ queue = NoQueue
  /\ maps = <<>>
  /\ flushers = [s \in Sinks |-> IF s = "useLoki" THEN 1 ELSE 0]
  /\ stringers = {}
  /\ delivered = <<>>

\* A log call of producer p reaches the callback of UseLoki, which asks for
\* the mutex.  A goroutine makes one call at a time.
BufLog(p, lvl) ==
  /\ nextId <= MaxAppends
  /\ \A e \in pending["useLoki"] : e.p # p
  /\ pending' = [pending EXCEPT !["useLoki"] =
                   @ \cup {[id |-> nextId, lvl |-> lvl, p |-> p]}]
  /\ nextId' = nextId + 1
  /\ UNCHANGED <<xvars, build, level, callbacks, pc, acc, sig, posts, console,
                 accepted, now, crashed>>

\* Lock() returns in the callback: the append with time.Now(), and Unlock()
BufAppend(p) ==
  /\ MuFree
  /\ \E e \in pending["useLoki"] :
       /\ e.p = p
       /\ acc' = [acc EXCEPT !["useLoki"] =
                    Append(@, LogEntry(e.id, now, e.lvl) @@ [p |-> p])]
       /\ accepted' = [accepted EXCEPT !["useLoki"] = Append(@, e.id)]
       /\ pending' = [pending EXCEPT !["useLoki"] = @ \ {e}]
  /\ now' = now + 1
  /\ UNCHANGED <<xvars, build, level, callbacks, pc, sig, posts, console,
                 nextId, crashed>>

\* The ticker case: sendBatch takes the mutex; with an empty buffer it
\* releases it and returns
BufTick ==
  /\ pc["useLoki"] = "select" /\ call.mu = "none"
  /\ Len(posts["useLoki"]) < MaxPosts
  /\ IF Len(acc["useLoki"]) = 0 THEN UNCHANGED <<pc, call>>
     ELSE /\ pc' = [pc EXCEPT !["useLoki"] = "locked"]
          /\ call' = [call EXCEPT !.mu = "sendBatch"]
  /\ UNCHANGED <<build, level, callbacks, acc, pending, sig, posts, console,
                 accepted, nextId, now, crashed, ret, queue, maps, flushers,
                 stringers, delivered>>

\* entries := logBuffer.entries
BufSnapshot ==
  /\ pc["useLoki"] = "locked"
  /\ call' = [call EXCEPT !.entries = acc["useLoki"]]
  /\ pc' = [pc EXCEPT !["useLoki"] = "snapped"]
  /\ UNCHANGED <<build, level, callbacks, acc, pending, sig, posts, console,
                 accepted, nextId, now, crashed, ret, queue, maps, flushers,
                 stringers, delivered>>

\* logBuffer.entries = make([]logEntry, 0), Unlock(), and the request with
\* the entries read before
BufReset ==
  /\ pc["useLoki"] = "snapped"
  /\ acc' = [acc EXCEPT !["useLoki"] = <<>>]
  /\ call' = [call EXCEPT !.mu = AfterReset(@), !.entries = <<>>]
  /\ posts' = [posts EXCEPT !["useLoki"] =
                 Append(@, [body |-> call.entries, state |-> "pending",
                            final |-> FALSE])]
  /\ pc' = [pc EXCEPT !["useLoki"] = "sending"]
  /\ UNCHANGED <<build, level, callbacks, pending, sig, console, accepted,
                 nextId, now, crashed, ret, queue, maps, flushers, stringers,
                 delivered>>

NextBuffer ==
  \/ \E p \in Producers, lvl \in LogLevels : BufLog(p, lvl)
  \/ \E p \in Producers : BufAppend(p)
  \/ BufTick
  \/ BufSnapshot
  \/ BufReset
  \/ \E resp \in Responses : SendReturns("useLoki", resp)

SpecBuffer == InitBuffer /\ [][NextBuffer]_vars

\* -------------------------------------------------------- marshal failure
\* The ticker case of the log sinks with the outcome of json.Marshal.  An
\* entry of a LokiNotifier carries the attribute values of the log call in
\* AdditionalValues; json.Marshal returns an error for a channel.  sendBatch
\* marshals strings only: it has formatted the attributes with %v.
AttrKinds == {"string", "chan"}

LogSinkOf(b) == CHOOSE s \in LogSinks : s \in ActiveSinks(b)

\* json.Marshal(entry) returns no error
Marshals(s, e) ==
  s = "useLoki" \/ ~("value" \in DOMAIN e /\ e.value = "chan")

\* The accumulators the flusher can hold when the ticker fires
MarshalBatches ==
  UNION {{[i \in 1..n |-> LogEntry(i, i, lv[i]) @@ [value |-> av[i]]] :
            lv \in [1..n -> LogLevels], av \in [1..n -> AttrKinds]} :
         n \in 1..MaxBatch}

InitMarshal ==
  /\ build \in Builds
  /\ level = LevelInfo
  /\ callbacks = [l \in LogLevels |-> <<>>]
  /\ pc = [s \in Sinks |-> IF s = LogSinkOf(build) THEN "select" ELSE "off"]
  /\ \E batch \in MarshalBatches :
       /\ acc = [s \in Sinks |-> IF s = LogSinkOf(build) THEN batch ELSE <<>>]
       /\ accepted = [s \in Sinks |-> IF s = LogSinkOf(build) THEN Ids(batch)
                                      ELSE <<>>]
       /\ nextId = Len(batch) + 1
       /\ now = Len(batch) + 1
  /\ pending = [s \in Sinks |-> {}]
  /\ sig = [s \in Sinks |-> "none"]
  /\ posts = [s \in Sinks |-> <<>>]
  /\ console = [s \in Sinks \cup {"app"} |-> <<>>]
  /\ crashed = FALSE
  /\ ret = NoRet
  /\ call = NoCall
  /\ queue = NoQueue
  /\ maps = <<>>
  /\ flushers = [s \in Sinks |-> IF s = LogSinkOf(build) THEN 1 ELSE 0]
  /\ stringers = {}
  /\ delivered = <<>>

\* The ticker case: send() marshals the batch; an error of json.Marshal is
\* returned to run() like any other error of send(), sendBatch logs it and
\* returns.  Without an error the POST goes out.
TickEncode(s) ==
  /\ s \in LogSinks /\ pc[s] = "select" /\ Len(acc[s]) > 0
  /\ IF \A i \in DOMAIN acc[s] : Marshals(s, acc[s][i]) THEN
       /\ StartFlush(s, FALSE)
       /\ ret' = [api |-> "send", err |-> "", sink |-> s, batch |-> acc[s]]
       /\ UNCHANGED <<console, pending, accepted>>
     ELSE
       LET st == Emit(s, Touched, Fallback(s, acc[s]))
       IN  /\ console' = st.console
           /\ pending' = st.pending
           /\ accepted' = st.accepted
           /\ acc' = [st.acc EXCEPT ![s] = IF s = "useLoki" THEN <<>>
                                           ELSE AfterFlush(s, @)]
           /\ ret' = [api |-> "send", err |-> "marshal", sink |-> s,
                      batch |-> acc[s]]
           /\ UNCHANGED <<pc, posts, crashed>>
  /\ UNCHANGED <<build, level, callbacks, sig, nextId, now, call, queue, maps,
                 flushers, stringers, delivered>>

NextMarshal ==
  \/ \E s \in Sinks : TickEncode(s)
  \/ \E s \in Sinks, resp \in Responses : SendReturns(s, resp)

SpecMarshal == InitMarshal /\ [][NextMarshal]_vars

\* ---------------------------------------------------------------- levels
\* The callbacks of the log sinks for the four levels: WithLoki configured
\* with all of them, UseLoki as it registers them.
BufferCallback(lvl) ==
  /\ ~crashed /\ pc["useLoki"] # "off"
  /\ nextId <= MaxEvents
  /\ \E dt \in TimeSteps :
       /\ now' = now + dt
       /\ acc' = [acc EXCEPT !["useLoki"] =
                    Append(@, LogEntry(nextId, now + dt, StoredLevel("useLoki", lvl)))]
  /\ accepted' = [accepted EXCEPT !["useLoki"] = Append(@, nextId)]
  /\ nextId' = nextId + 1
  /\ UNCHANGED <<xvars, build, level, callbacks, pc, pending, sig, posts,
                 console, crashed>>

NextLevels ==
  \/ \E s \in Sinks, lvl \in AllLevels : LokiCallback(s, lvl)
  \/ \E lvl \in AllLevels : BufferCallback(lvl)
  \/ \E s \in Sinks : Receive(s)

SpecLevels == Init /\ [][NextLevels]_vars

\* ------------------------------------------------------ concurrent setup
\* WithAlertManager called by several goroutines at once, statement by
\* statement, with valid arguments and an endpoint that answers the
\* readiness probe with 200.  The global alertQueue is read (line 43) and
\* written (line 46) without a lock.  `call` holds the position of every
\* goroutine, the host it was given and, as history, the queues the started
\* flushers run.
MaxCallers == 3     \* goroutines that call WithAlertManager

Callers == 1..MaxCallers

InitRace ==
  /\ build \in AlertBuilds
  /\ level = LevelInfo
  /\ callbacks = [l \in LogLevels |-> <<>>]
  /\ pc = [s \in Sinks |-> "off"]
  /\ acc = [s \in Sinks |-> <<>>]
  /\ pending = [s \in Sinks |-> {}]
  /\ sig = [s \in Sinks |-> "none"]
  /\ posts = [s \in Sinks |-> <<>>]
  /\ console = [s \in Sinks \cup {"app"} |-> <<>>]
  /\ accepted = [s \in Sinks |-> <<>>]
  /\ nextId = 1
  /\ now = 1
  /\ crashed = FALSE
  /\ ret = NoRet
  /\ \E hosts \in [Callers -> {"h1", "h2"}] :
       call = [api |-> "WithAlertManager", at |-> [g \in Callers |-> "probe"],
               host |-> hosts, assigned |-> 0, runs |-> <<>>]
  /\ queue = NoQueue
  /\ maps = [g \in Callers |-> BaseLabels]
  /\ flushers = [s \in Sinks |-> 0]
  /\ stringers = {}
  /\ delivered = <<>>

\* waitForAlertmanager returns nil, then `if alertQueue != nil`
WamCheck(g) ==
  /\ call.at[g] = "probe"
  /\ IF queue.set
     THEN /\ call' = [call EXCEPT !.at[g] = "rejected"]
          /\ ret' = Returned("WithAlertManager", "alertmanager already set up",
                             FALSE, <<>>) @@ [g |-> g]
     ELSE /\ call' = [call EXCEPT !.at[g] = "passed"]
          /\ UNCHANGED ret
  /\ UNCHANGED <<build, level, callbacks, pc, acc, pending, sig, posts,
                 console, accepted, nextId, now, crashed, queue, maps,
                 flushers, stringers, delivered>>

\* alertQueue = &AlertQueue{...}
WamAssign(g) ==
  /\ call.at[g] = "passed"
  /\ queue' = [set |-> TRUE, host |-> call.host[g], labels |-> g]
  /\ call' = [call EXCEPT !.at[g] = "assigned", !.assigned = @ + 1]
  /\ UNCHANGED <<build, level, callbacks, pc, acc, pending, sig, posts,
                 console, accepted, nextId, now, crashed, ret, maps, flushers,
                 stringers, delivered>>

\* go alertQueue.run(ctx); return nil
WamSpawn(g) ==
  /\ call.at[g] = "assigned"
  /\ flushers' = [flushers EXCEPT !["alert"] = @ + 1]
  /\ pc' = [pc EXCEPT !["alert"] = "select"]
  /\ call' = [call EXCEPT !.at[g] = "returned", !.runs = Append(@, queue.labels)]
  /\ ret' = Returned("WithAlertManager", "", FALSE, <<>>) @@ [g |-> g]
  /\ UNCHANGED <<build, level, callbacks, acc, pending, sig, posts, console,
                 accepted, nextId, now, crashed, queue, maps, stringers,
                 delivered>>

NextRace ==
  \/ \E g \in Callers : WamCheck(g)
  \/ \E g \in Callers : WamAssign(g)
  \/ \E g \in Callers : WamSpawn(g)

SpecRace == InitRace /\ [][NextRace]_vars

\* ------------------------------------------------------------- StopLoki
\* StopLoki called any number of times, before or after UseLoki.  A caller
\* sits in the unbuffered `done <- true` until processBatches receives.
\* `call` holds the callers that wait in the send and those whose call has
\* returned.
MaxStops == 2       \* StopLoki calls per run

InitStop ==
  /\ build = "v3"
  /\ level = LevelInfo
  /\ \E used \in BOOLEAN :
       /\ pc = [s \in Sinks |-> IF used /\ s = "useLoki" THEN "select" ELSE "off"]
       /\ flushers = [s \in Sinks |-> IF used /\ s = "useLoki" THEN 1 ELSE 0]
       /\ callbacks = [l \in LogLevels |-> IF used THEN <<"useLoki">> ELSE <<>>]
  /\ acc = [s \in Sinks |-> <<>>]
  /\ pending = [s \in Sinks |-> {}]
  /\ sig = [s \in Sinks |-> "none"]
  /\ posts = [s \in Sinks |-> <<>>]
  /\ console = [s \in Sinks \cup {"app"} |-> <<>>]
  /\ accepted = [s \in Sinks |-> <<>>]
  /\ nextId = 1
  /\ now = 1
  /\ crashed = FALSE
  /\ ret = NoRet
  /\ call = [api |-> "StopLoki", waiting |-> {}, returned |-> {}]
  /\ queue = NoQueue
  /\ maps = <<>>
  /\ stringers = {}
  /\ delivered = <<>>

\* StopLoki: with ticker == nil it returns; otherwise ticker.Stop() and the
\* send on done
StopCall(c) ==
  /\ c \notin call.waiting \cup call.returned
  /\ IF pc["useLoki"] = "off"
     THEN /\ call' = [call EXCEPT !.returned = @ \cup {c}]
          /\ UNCHANGED sig
     ELSE /\ call' = [call EXCEPT !.waiting = @ \cup {c}]
          /\ sig' = [sig EXCEPT !["useLoki"] = IF @ = "none" THEN "signalled" ELSE @]
  /\ UNCHANGED <<build, level, callbacks, pc, acc, pending, posts, console,
                 accepted, nextId, now, crashed, ret, queue, maps, flushers,
                 stringers, delivered>>

\* `case <-done` of processBatches: the caller's send completes, then the
\* last sendBatch and the return
StopTaken(c) ==
  /\ InSelect("useLoki")
  /\ c \in call.waiting
  /\ call' = [call EXCEPT !.waiting = @ \ {c}, !.returned = @ \cup {c}]
  /\ sig' = [sig EXCEPT !["useLoki"] = "observed"]
  /\ StartFlush("useLoki", TRUE)
  /\ UNCHANGED <<build, level, callbacks, pending, console, accepted, nextId,
                 now, ret, queue, maps, flushers, stringers, delivered>>

NextStop ==
  \/ \E c \in 1..MaxStops : StopCall(c)
  \/ \E c \in 1..MaxStops : StopTaken(c)
  \/ \E lvl \in LogLevels : Log(lvl)
  \/ Tick("useLoki")
  \/ \E resp \in Responses : SendReturns("useLoki", resp)

SpecStop == InitStop /\ [][NextStop]_vars

\* ----------------------------------------------------------------- Setup
\* Setup(levelStr) of the Logger.  A string is the sequence of its
\* characters; strings.ToLower maps the upper-case letters.
MaxConfigs == 3     \* Setup calls per run

ToLower(str) ==
  LET LowerOf == [c \in {"D", "I", "N", "F", "O", "W"} |->
                    CASE c = "D" -> "d" [] c = "I" -> "i" [] c = "N" -> "n"
                      [] c = "F" -> "f" [] c = "O" -> "o" [] c = "W" -> "w"]
  IN  [i \in DOMAIN str |->
         IF str[i] \in DOMAIN LowerOf THEN LowerOf[str[i]] ELSE str[i]]

LevelStrings ==
  {<<"d", "e", "b", "u", "g">>, <<"D", "e", "b", "u", "g">>,
   <<"i", "n", "f", "o">>, <<"I", "N", "F", "O">>,
   <<"w", "a", "r", "n">>, <<"W", "a", "r", "n">>,
   <<"e", "r", "r", "o", "r">>,
   <<"w", "a", "r", "n", "i", "n", "g">>, <<"t", "r", "a", "c", "e">>, <<>>}

ParseLevel(levelStr) ==
  LET lower == ToLower(levelStr)
  IN  CASE lower = <<"d", "e", "b", "u", "g">> -> [lvl |-> LevelDebug, err |-> ""]
        [] lower = <<"i", "n", "f", "o">>      -> [lvl |-> LevelInfo, err |-> ""]
        [] lower = <<"w", "a", "r", "n">>      -> [lvl |-> LevelWarn, err |-> ""]
        [] lower = <<"e", "r", "r", "o", "r">> -> [lvl |-> LevelError, err |-> ""]
        [] OTHER -> [lvl |-> LevelInfo, err |-> "unknown log level"]

InitConfig ==
  /\ build = "v3"
  /\ level \in AllLevels
  /\ callbacks = [l \in AllLevels |-> <<>>]
  /\ pc = [s \in Sinks |-> "off"]
  /\ acc = [s \in Sinks |-> <<>>]
  /\ pending = [s \in Sinks |-> {}]
  /\ sig = [s \in Sinks |-> "none"]
  /\ posts = [s \in Sinks |-> <<>>]
  /\ console = [s \in Sinks \cup {"app"} |-> <<>>]
  /\ accepted = [s \in Sinks |-> <<>>]
  /\ nextId = 1
  /\ now = 1
  /\ crashed = FALSE
  /\ ret = NoRet
  /\ call = NoCall
  /\ queue = NoQueue
  /\ maps = <<>>
  /\ flushers = [s \in Sinks |-> 0]
  /\ stringers = {}
  /\ delivered = <<>>

\* SetLevel before the check of the error of ParseLevel
Setup_setFirst(levelStr) ==
  /\ nextId <= MaxConfigs
  /\ nextId' = nextId + 1
  /\ LET r == ParseLevel(levelStr)
     IN  /\ ret' = [api |-> "Setup", err |-> r.err, str |-> levelStr, id |-> nextId]
         /\ level' = r.lvl
         /\ IF r.err # "" THEN UNCHANGED callbacks
            ELSE callbacks' = [l \in AllLevels |-> Append(callbacks[l], "slog")]
  /\ UNCHANGED <<build, pc, acc, pending, sig, posts, console, accepted, now,
                 crashed, call, queue, maps, flushers, stringers, delivered>>

\* Setup: ParseLevel, SetLevel, and RegisterCallback of slog.Debug,
\* slog.Info, slog.Warn and slog.Error on their levels
Setup(levelStr) ==
  /\ nextId <= MaxConfigs
  /\ nextId' = nextId + 1
  /\ LET r == ParseLevel(levelStr)
     IN  /\ ret' = [api |-> "Setup", err |-> r.err, str |-> levelStr, id |-> nextId]
         /\ IF r.err # "" THEN UNCHANGED <<level, callbacks>>
            ELSE /\ level' = r.lvl
                 /\ callbacks' = [l \in AllLevels |-> Append(callbacks[l], "slog")]
  /\ UNCHANGED <<build, pc, acc, pending, sig, posts, console, accepted, now,
                 crashed, call, queue, maps, flushers, stringers, delivered>>

NextConfig == \E levelStr \in LevelStrings : Setup(levelStr)

SpecConfig == InitConfig /\ [][NextConfig]_vars

\* ------------------------------------------------------------ properties
RECURSIVE FlattenIds(_)
FlattenIds(ps) ==
  IF ps = <<>> THEN <<>> ELSE Ids(Head(ps).body) \o FlattenIds(Tail(ps))

IsPrefix(a, b) == Len(a) <= Len(b) /\ SubSeq(b, 1, Len(a)) = a

InSeq(x, q) == \E i \in DOMAIN q : q[i] = x

\* The step that ends the snapshot of a flush: for the channel sinks the
\* return of sendAlerts / sendLogs, for UseLoki the reset under the mutex.
FlushSnapshotDone(s) ==
  IF s = "useLoki" THEN pc[s] = "select" /\ pc'[s] = "sending"
  ELSE pc[s] = "sending" /\ pc'[s] \in {"select", "stopped"}

\* The step in which the transport reports failure for post i of sink s
FailStep(s, i) ==
  posts[s][i].state = "pending" /\ posts'[s][i].state = "failed"

NewRecords(s) == SubSeq(console'[s], Len(console[s]) + 1, Len(console'[s]))

\* C1: immediately after a flush of a non-empty accumulator the accumulator
\* has length 0, whatever the outcome of the send; so a sink issues a POST
\* only when an item arrived since the previous flush.
C1_AccumulatorEmptyAfterFlush ==
  [][\A s \in Sinks :
       /\ FlushSnapshotDone(s) => Len(acc'[s]) = 0
       /\ Len(posts'[s]) > Len(posts[s]) =>
            \E i \in DOMAIN acc[s] : acc[s][i].id # 0]_vars

\* C2: the batches a sink posts are, in order, consecutive pieces of the
\* sequence of items its accumulator took: every item is in at most one
\* batch, in acceptance order, and no batch holds anything else.
C2_BatchesAreTheAcceptedItems ==
  \A s \in Sinks : IsPrefix(FlattenIds(posts[s]), accepted[s])

\* C3: an item that a sink took and that has left its pipeline is either
\* delivered or on the fallback path, never both and never neither.
Delivered(s, e) ==
  \E i \in DOMAIN posts[s] :
     posts[s][i].state = "ok" /\ InSeq(e, Ids(posts[s][i].body))

FellBack(s, e) ==
  \E k \in DOMAIN console[s] :
     \/ console[s][k].kind = "event" /\ console[s][k].id = e
     \/ console[s][k].kind = "summary" /\ InSeq(e, console[s][k].ids)

InPipeline(s, e) ==
  \/ InSeq(e, Ids(acc[s]))
  \/ \E i \in InFlight(s) : InSeq(e, Ids(posts[s][i].body))

C3_DeliveredOrFallback ==
  \A s \in Sinks : \A k \in DOMAIN accepted[s] :
     LET e == accepted[s][k]
     IN  /\ ~(Delivered(s, e) /\ FellBack(s, e))
         /\ ~InPipeline(s, e) => (Delivered(s, e) \/ FellBack(s, e))

\* C4: a failed send of a batch of n items writes n per-item records, one
\* for each item with that item's timestamp, and one summary record.
C4_FallbackRecords ==
  [][\A s \in Sinks : \A i \in DOMAIN posts[s] :
       FailStep(s, i) =>
         LET b == posts[s][i].body
             r == NewRecords(s)
         IN  /\ Len(r) = Len(b) + 1
             /\ Cardinality({k \in DOMAIN r : r[k].kind = "summary"}) = 1
             /\ \A j \in DOMAIN b : \E k \in DOMAIN r :
                  /\ r[k].kind = "event"
                  /\ r[k].id = b[j].id /\ r[k].ts = b[j].ts]_vars

\* C5: no flusher panics; the base-label injection never writes into a nil
\* Labels map.
C5_NoFlusherCrash ==
  ~crashed /\ \A s \in Sinks : pc[s] # "crashed"

\* C6: the shutdown flush carries every item the accumulator holds, and
\* once the sink is stopped nothing is retained in its accumulator.
C6_ShutdownFlushAndNoRetention ==
  [][\A s \in Sinks :
       /\ (sig[s] = "signalled" /\ sig'[s] = "observed" /\ acc[s] # <<>>) =>
            /\ Len(posts'[s]) = Len(posts[s]) + 1
            /\ Ids(posts'[s][Len(posts'[s])].body) = Ids(acc[s])
       /\ pc'[s] = "stopped" => acc'[s] = <<>>]_vars

\* C7: a flusher that observes the shutdown signal makes its one flush
\* attempt and stops; once stopped it stays stopped and issues no POST.
C7_OneFinalFlushThenStopped ==
  [][\A s \in Sinks :
       /\ (sig[s] = "signalled" /\ sig'[s] = "observed") =>
            pc'[s] \in {"sending", "stopped"}
       /\ pc[s] = "stopped" => (pc'[s] = "stopped" /\ posts'[s] = posts[s])]_vars

\* C8: at most one flush is in progress per sink, and the accumulator is
\* read and written by the flusher task only (original statement).
FlusherStep(s) ==
  \/ Receive(s) \/ Tick(s) \/ Done(s)
  \/ \E resp \in Responses : SendReturns(s, resp)

C9_FailedBatchNotResent ==
  \A s \in Sinks : \A i, j \in DOMAIN posts[s] :
     (i < j /\ posts[s][i].state = "failed") =>
       \A a \in DOMAIN posts[s][i].body, b \in DOMAIN posts[s][j].body :
          posts[s][i].body[a].slot # posts[s][j].body[b].slot

\* C10: the failure branch of a flush enqueues nothing: no accumulator
\* takes an item and no producer ends up blocked on a channel in that step.
C10_FallbackNeverEnqueues ==
  [][\A s \in Sinks : \A i \in DOMAIN posts[s] :
       FailStep(s, i) =>
         /\ accepted' = accepted
         /\ pending' = pending
         /\ \A t \in Sinks \ {s} : acc'[t] = acc[t]]_vars

C10_Witness ==
  /\ InSeq("userAlert", callbacks[LevelError])
  /\ InSeq("useLoki", callbacks[LevelError])
  /\ \E s \in Sinks : \E i \in DOMAIN posts[s] : posts[s][i].state = "failed"

\* A setup call returns in this step
SetupReturns(api) ==
  /\ ret' # NoRet /\ ret'.api = api
  /\ \/ call # NoCall /\ call' = NoCall
     \/ call = NoCall /\ nextId' = nextId + 1

\* C11: while an alert sink is active, a WithAlertManager call that returns
\* returns an error, and no step of it changes the active sink: alertQueue
\* is the same object with the same host, the base labels it holds are the
\* same, and no second flusher is started.
C11_SecondAlertSinkRejected ==
  [][queue.set =>
       /\ SetupReturns("WithAlertManager") => ret'.err # ""
       /\ queue' = queue
       /\ maps'[queue.labels] = maps[queue.labels]
       /\ flushers'["alert"] = flushers["alert"]]_vars

\* A response that makes the probe count an attempt
ProbeFailed(r) == r.err \/ r.code # StatusOK

\* C16: a setup call (WithAlertManager, WithLoki, UseLoki) that got no 200
\* from <host>/ready returns an error and registers no callback, creates no
\* queue and starts no flusher.
C16_NoReadyNoSink ==
  [][\A api \in SetupApis(build) :
       (SetupReturns(api) /\ \A i \in 1..Len(ret'.log) : ProbeFailed(ret'.log[i]))
         => /\ ret'.err # ""
            /\ UNCHANGED <<callbacks, queue, flushers, pc>>]_vars

\* C17: the probe issues at most 6 GETs (2 in WithLoki(ctx, ...)); every
\* attempt before the last one failed; it returns nil exactly when the last
\* attempt got a 200, and the connection error exactly when the last of 6
\* (2) attempts failed too.
C17_ProbeBounded ==
  LET bound(api) == IF api = "WithLokiCtx" THEN 2 ELSE 6
  IN  /\ call # NoCall =>
           /\ Len(call.log) < bound(call.api)
           /\ \A i \in 1..Len(call.log) : ProbeFailed(call.log[i])
      /\ (ret # NoRet /\ ret.log # <<>>) =>
           LET n == Len(ret.log)
           IN  /\ n <= bound(ret.api)
               /\ \A i \in 1..(n - 1) : ProbeFailed(ret.log[i])
               /\ ProbeFailed(ret.log[n]) <=> ret.err = "could not connect"
               /\ ProbeFailed(ret.log[n]) => n = bound(ret.api)

\* The sixth GET of waitForAlertmanager got the 200, after a connection
\* error and a non-200 status among the first five.
C17_Witness ==
  /\ ret # NoRet /\ ret.api = "WithAlertManager"
  /\ Len(ret.log) = 6 /\ ret.err = ""
  /\ \E i, j \in 1..5 : ret.log[i].err /\ ~ret.log[j].err

\* An Alert() call is made in this step; ret' holds its arguments and result
AlertStep == ret' # NoRet /\ ret'.api = "Alert" /\ nextId' = nextId + 1

C13_InvalidAlertRejected ==
  [][(AlertStep /\ (ret'.name = "" \/ ret'.summary = ""
                      \/ ret'.startsAt > ret'.endsAt))
       => /\ ret'.err # ""
          /\ pending' = pending
          /\ acc' = acc]_vars

\* C14: with no alert sink set up, an Alert call returns the 'not
\* initialized' error whatever its arguments, hands nothing to a channel
\* and writes into no map.
C14_NoSinkFailsFast ==
  [][(AlertStep /\ ~queue.set)
       => /\ ret'.err = "not initialized"
          /\ UNCHANGED <<pending, acc, maps, posts>>]_vars

\* Without a sink, a call with an empty name got the 'not initialized' error
C14_Witness ==
  /\ ~queue.set /\ ret # NoRet /\ ret.api = "Alert"
  /\ ret.name = "" /\ ret.summary = "" /\ ret.err = "not initialized"

\* C15: every alert posted has, for every base label, the base value, also
\* where the caller gave another one; every other key has the value the
\* caller gave, except alertname, which is the name argument of the call.
C15_BaseLabelsWin ==
  \A i \in DOMAIN posts["alert"] :
    \A j \in DOMAIN posts["alert"][i].body :
      LET e == posts["alert"][i].body[j]
          baseKeys == {p[1] : p \in BaseLabels}
      IN  /\ BaseLabels \subseteq e.labels
          /\ \A p \in e.labels :
               \/ p[1] \in baseKeys /\ p \in BaseLabels
               \/ p[1] = "alertname" /\ p[2] = e.name
               \/ p[1] \notin baseKeys \cup {"alertname"} /\ p \in e.given
          /\ \A p \in e.given :
               p[1] \notin baseKeys \cup {"alertname"} => p \in e.labels

\* The last call of the API was a log call that returned
LogReturned == ret # NoRet /\ ret.api = "log" /\ ret.err = ""

\* C18: after a log call with valid attributes, nothing was invoked if the
\* call's level is below the minimum level; otherwise the callbacks invoked
\* are, one for one and in order, those registered for the call's level.
C18_LevelFilterAndFanOut ==
  LogReturned =>
    LET invoked == [i \in DOMAIN delivered |-> delivered[i].cb]
    IN  IF ret.lvl < level THEN invoked = <<>>
        ELSE invoked = callbacks[ret.lvl]

\* Two callbacks on the call's level were invoked in registration order
\* while another level had none
C18_Witness ==
  /\ LogReturned /\ ret.lvl = LevelError /\ level = LevelInfo
  /\ callbacks[LevelError] = <<"cb2", "cb1">>
  /\ Len(delivered) = 2

\* C19: a log call panics exactly when its attribute list has odd length or
\* one of its keys (positions 1, 3, ...) is not a string or is the empty
\* string, whatever the level of the call and the minimum level; a call
\* that panics invoked no callback.
C19_MalformedArgsPanic ==
  (ret # NoRet /\ ret.api = "log") =>
    LET n   == Len(ret.args)
        odd == n % 2 = 1
        badKey == \E i \in 1..n :
                    /\ i % 2 = 1
                    /\ ret.args[i] \notin {a \in ArgValues :
                                            a.t = "string" /\ a.v # <<>>}
    IN  /\ (ret.err = "panic") <=> (odd \/ badKey)
        /\ ret.err = "panic" => delivered = <<>> /\ crashed

\* A call below the minimum level, on a level with a callback, panicked on
\* an empty key
C19_Witness ==
  /\ ret # NoRet /\ ret.api = "log" /\ ret.err = "panic"
  /\ ret.lvl < level /\ callbacks[ret.lvl] # <<>>
  /\ Len(ret.args) = 2 /\ ret.args[1] = [t |-> "string", v |-> <<>>]

\* C20: every callback of a log call receives a list as long as the call's;
\* an element whose dynamic type has a converter is the output of the
\* converter registered last for the type, a nil pointer and nil are nil,
\* every other element is the element passed.
C20_ConvertedArgs ==
  LogReturned =>
    \A d \in DOMAIN delivered :
      /\ Len(delivered[d].args) = Len(ret.args)
      /\ \A i \in DOMAIN ret.args :
           LET a   == ret.args[i]
               got == delivered[d].args[i]
           IN  IF a = NilValue \/ (a.t = "*S" /\ a.v = <<>>)
               THEN got = NilValue
               ELSE IF \E p \in stringers : p[1] = a.t
               THEN \E p \in stringers :
                      /\ p[1] = a.t
                      /\ got = [t |-> "string", v |-> <<p[2][2]>> \o a.v]
               ELSE got = a

\* The status a push must get to count as delivered: 200 for alerts, 204
\* for logs
ExpectedStatus(s) == IF s = "alert" THEN StatusOK ELSE StatusNoContent

\* C21: the flush whose POST returns is taken as delivered exactly when the
\* response is no transport error and has status 200 (alert push) or 204
\* (log push); in every other case the failure branch writes to the local
\* log.
C21_SuccessStatus ==
  [][\A s \in Sinks, resp \in Responses :
       SendReturns(s, resp) =>
         LET i    == CHOOSE j \in InFlight(s) : TRUE
             want == ~resp.err /\ resp.code = ExpectedStatus(s)
         IN  /\ (posts'[s][i].state = "ok") <=> want
             /\ ~want => console'[s] # console[s]]_vars

\* The reading of a payload by the receiving end
\* strconv.ParseInt of a digit string
RECURSIVE ParseInt(_)
ParseInt(d) ==
  IF Len(d) = 1 THEN d[1]
  ELSE 10 * ParseInt(SubSeq(d, 1, Len(d) - 1)) + d[Len(d)]

\* The level a level name stands for, in either case, WARNING for WARN
LevelOfName(name) ==
  CASE name \in {"DEBUG", "debug"}          -> LevelDebug
    [] name \in {"INFO", "info"}            -> LevelInfo
    [] name \in {"WARN", "WARNING", "warn"} -> LevelWarn
    [] name \in {"ERROR", "error"}          -> LevelError

\* What the receiver reads out of one value of a stream
DecodeValue(stream, v) ==
  LET named == IF \E p \in stream : p[1] = "level"
               THEN (CHOOSE p \in stream : p[1] = "level")[2]
               ELSE v[2].level
  IN  [msg |-> v[2].message,
       labels |-> {p \in stream : p[1] # "level"},
       lvl |-> LevelOfName(named),
       ts |-> ParseInt(v[1]) \div NanosPerTick,
       nanos |-> ParseInt(v[1]) % NanosPerTick]

RECURSIVE Decode(_)
Decode(streams) ==
  IF streams = <<>> THEN <<>>
  ELSE LET h == Head(streams)
       IN  [i \in DOMAIN h.values |-> DecodeValue(h.stream, h.values[i])]
           \o Decode(Tail(streams))

\* Two sequences hold the same elements the same number of times
SameBag(p, q) ==
  \A x \in {p[i] : i \in DOMAIN p} \cup {q[i] : i \in DOMAIN q} :
    Cardinality({i \in DOMAIN p : p[i] = x}) =
    Cardinality({i \in DOMAIN q : q[i] = x})

\* A body was encoded
Encoded == ret # NoRet /\ ret.api = "send"

InStream(s, stream, e) ==
  /\ {p \in stream : p[1] # "level"} = StreamLabels(s)
  /\ IF s = "useLoki"
     THEN \E p \in stream : p[1] = "level" /\ LevelOfName(p[2]) = e.lvl
     ELSE \A p \in stream : p[1] # "level"

\* C25: every entry of the batch belongs to exactly one stream of the
\* payload; the values of a stream are those of its entries in the order of
\* the batch, each the pair of the decimal unix-nanosecond timestamp and the
\* line; no stream is empty.
C25_StreamsPartitionBatch ==
  Encoded =>
    LET P == ret.payload.streams
        B == ret.batch
    IN  /\ \A i \in DOMAIN B :
             Cardinality({k \in DOMAIN P : InStream(ret.sink, P[k].stream, B[i])}) = 1
        /\ \A k \in DOMAIN P :
             LET mine == SelectSeq(B, LAMBDA e : InStream(ret.sink, P[k].stream, e))
                 vals == P[k].values
             IN  /\ Len(vals) = Len(mine) /\ Len(vals) > 0
                 /\ \A i \in DOMAIN vals :
                      /\ Len(vals[i]) = 2
                      /\ ParseInt(vals[i][1]) = mine[i].ts * NanosPerTick
                      /\ vals[i][2].message = mine[i].id

\* sendBatch made two streams out of a batch of two levels
C25_Witness ==
  /\ Encoded /\ ret.sink = "useLoki"
  /\ Len(ret.payload.streams) = 2
  /\ ret.batch[1].lvl = LevelError /\ ret.batch[2].lvl = LevelDebug

\* C23: in the channel sinks an item leaves its producer only in a step in
\* which the flusher, sitting in its select, appends that item to its
\* accumulator; while the flusher is inside a flush no producer is released,
\* and a flusher that has stopped stays stopped and releases no producer.
C23_HandOffBlocksProducer ==
  [][\A s \in ChanSinks :
       /\ \A e \in pending[s] :
            e \notin pending'[s] =>
              /\ pc[s] = "select" /\ pc'[s] = "select"
              /\ acc'[s] = Append(acc[s], e)
       /\ pc[s] = "sending" => pending[s] \subseteq pending'[s]
       /\ pc[s] = "stopped" =>
            pc'[s] = "stopped" /\ pending[s] \subseteq pending'[s]]_vars

\* A flusher has taken one item and stopped, and a producer is blocked on it.
C23_Witness ==
  \E s \in ChanSinks :
    /\ pc[s] = "stopped"
    /\ accepted[s] # <<>>
    /\ \E e \in pending[s] : e.id > accepted[s][Len(accepted[s])]

\* The callbacks log call `id` has invoked so far, in order, by the history d
InvokedIn(d, id) ==
  LET mine == SelectSeq(d, LAMBDA x : x.ev = id)
  IN  [k \in DOMAIN mine |-> mine[k].cb]

Invoked(id) == InvokedIn(delivered, id)

\* The callbacks registered on level l before log call `id` started
RegisteredBefore(regs, id) ==
  LET old == SelectSeq(regs, LAMBDA r : r.since <= id)
  IN  [k \in DOMAIN old |-> old[k].cb]

\* A callback of the running frame waits for a lock the goroutine holds
Deadlocked ==
  /\ call.stack # <<>> /\ Top.phase = "run" /\ Top.i <= Len(Top.cbs)
  /\ Top.cbs[Top.i].cb \in {"reg", "set", "str"}
  /\ ~LockFree

\* C24: while the callbacks of a log call run the goroutine holds no lock of
\* the Logger, so a callback that registers a callback, sets the level,
\* registers a stringer or logs is never stuck on the mutex; a registration
\* is never removed, and a dispatched log call returns having invoked
\* exactly the callbacks registered on its level before it started, each
\* once and in registration order: not the ones registered while it ran, and
\* all the earlier ones.
C24_NoLockWhileCallbacksRun ==
  /\ [](~Deadlocked)
  /\ []((call.stack # <<>> /\ Top.phase = "run") => call.readers = 0)
  /\ [][/\ \A l \in LogLevels : IsPrefix(callbacks[l], callbacks'[l])
        /\ (ret' # ret /\ ret'.api = "log" /\ ~ret'.filtered) =>
             InvokedIn(delivered', ret'.id) =
               RegisteredBefore(callbacks'[ret'.lvl], ret'.id)]_vars

\* A callback registered another one while a log call was dispatched: that
\* call returned without it, and a later call of the level has invoked it.
C24_Witness ==
  /\ call.stack = <<>>
  /\ \E a, b \in 1..nextId, l \in LogLevels :
       /\ a < b
       /\ Invoked(a) = <<"reg">>
       /\ Invoked(b) = <<"reg", "cb1">>
       /\ Len(callbacks[l]) = 3
       /\ callbacks[l][2] = Registered("cb1", a + 1)

\* C26: the alert an Alert call hands to the queue has both times set and
\* startsAt <= endsAt: two zero arguments give the time of the call for
\* both, one zero argument takes the value of the other, and two given
\* times are kept.
C26_AlertTimesDefaulted ==
  [][AlertStep =>
       \A e \in pending'["alert"] \ pending["alert"] :
         e.id = ret'.id =>
           /\ e.ts # 0 /\ e.ends # 0 /\ e.ts <= e.ends
           /\ (ret'.startsAt = 0 /\ ret'.endsAt = 0) =>
                (e.ts = now' /\ e.ends = now')
           /\ (ret'.startsAt = 0 /\ ret'.endsAt # 0) =>
                (e.ts = ret'.endsAt /\ e.ends = ret'.endsAt)
           /\ (ret'.startsAt # 0 /\ ret'.endsAt = 0) =>
                (e.ts = ret'.startsAt /\ e.ends = ret'.startsAt)
           /\ (ret'.startsAt # 0 /\ ret'.endsAt # 0) =>
                (e.ts = ret'.startsAt /\ e.ends = ret'.endsAt)]_vars

\* A call without startsAt handed over an alert that starts at its endsAt,
\* after a call without times handed over one stamped with the clock
C26_Witness ==
  /\ ret # NoRet /\ ret.api = "Alert" /\ ret.err = ""
  /\ ret.startsAt = 0 /\ ret.endsAt = 1
  /\ \E e \in pending["alert"] : e.id = ret.id /\ e.ts = 1 /\ e.ends = 1
  /\ \E e \in pending["alert"] \cup {acc["alert"][i] : i \in DOMAIN acc["alert"]} :
       e.id < ret.id /\ e.ts = e.ends /\ e.ts > 1

\* C27: whatever the interleaving of the producers' appends with sendBatch,
\* the entries of the requests followed by those still in the buffer are the
\* appended entries, each once and in the order of the appends, and the
\* entries of one producer are in the order of its calls.
C27_SnapshotAtomic ==
  (build = "v3" /\ call.api = "sendBatch") =>
    LET kept == FlattenIds(posts["useLoki"]) \o Ids(acc["useLoki"])
        bodies == [k \in DOMAIN posts["useLoki"] |-> posts["useLoki"][k].body]
    IN  /\ kept = accepted["useLoki"]
        /\ \A i, j \in DOMAIN kept : i < j => kept[i] # kept[j]
        /\ \A k \in DOMAIN bodies : \A i, j \in DOMAIN bodies[k] :
             (i < j /\ bodies[k][i].p = bodies[k][j].p) =>
               bodies[k][i].id < bodies[k][j].id

\* Two producers appended while sendBatch held a snapshot: one entry went
\* out with the first request, a later one of the same producer and one of
\* the other producer with the second.
C27_Witness ==
  /\ call.api = "sendBatch"
  /\ Len(posts["useLoki"]) = 2
  /\ Len(posts["useLoki"][1].body) = 1
  /\ Len(posts["useLoki"][2].body) = 2
  /\ \E i, j \in 1..2 :
       /\ posts["useLoki"][2].body[i].p = posts["useLoki"][1].body[1].p
       /\ posts["useLoki"][2].body[j].p # posts["useLoki"][1].body[1].p
       /\ posts["useLoki"][2].body[j].id < posts["useLoki"][1].body[1].id

\* The request of sendBatch is outstanding
Outstanding == pc["useLoki"] = "sending" /\ InFlight("useLoki") # {}

\* C29: while the request of a flush is outstanding nobody holds the mutex
\* of the buffer, the append of every producer that waits for it can
\* proceed and puts the entry at the end of the buffer; the request a flush
\* issues carries the whole buffer; no second flush starts before the
\* request has returned.
C29_ProducersNotBlockedBySend ==
  /\ [](Outstanding =>
          /\ call.mu = "none"
          /\ \A p \in Producers :
               (\E e \in pending["useLoki"] : e.p = p) => ENABLED BufAppend(p)
          /\ ~ENABLED BufTick)
  /\ [][/\ (Outstanding /\ accepted'["useLoki"] # accepted["useLoki"]) =>
             /\ Len(acc'["useLoki"]) = Len(acc["useLoki"]) + 1
             /\ SubSeq(acc'["useLoki"], 1, Len(acc["useLoki"])) = acc["useLoki"]
             /\ pc' = pc /\ posts' = posts
        /\ Len(posts'["useLoki"]) > Len(posts["useLoki"]) =>
             posts'["useLoki"][Len(posts'["useLoki"])].body = acc["useLoki"]]_vars

\* An entry appended while the first request was outstanding went out with
\* the second request
C29_Witness ==
  /\ call.api = "sendBatch"
  /\ Outstanding
  /\ Len(posts["useLoki"]) = 2
  /\ posts["useLoki"][1].state = "failed"
  /\ \E i \in DOMAIN posts["useLoki"][2].body :
       posts["useLoki"][2].body[i].ts = posts["useLoki"][1].body[1].ts + 1
  /\ pending["useLoki"] # {}

\* The flush of this step ended in an error of json.Marshal
MarshalFailed == ret' # ret /\ ret'.api = "send" /\ ret'.err = "marshal"

\* C28: a flush whose batch cannot be marshalled writes one record, the
\* error, to the local log, issues no request and writes no record per
\* event, and leaves the accumulator empty.
C28_MarshalFailureDropsBatch ==
  [][MarshalFailed =>
       LET s == ret'.sink
       IN  /\ Len(NewRecords(s)) = 1
           /\ NewRecords(s)[1].kind = "summary"
           /\ posts' = posts
           /\ acc'[s] = <<>>]_vars

\* C30: the entry the callback of a log sink enqueues for a log call of
\* level Debug, Info, Warn or Error carries that level.
C30_StoredLevelIsCallLevel ==
  [][\A lvl \in AllLevels :
       /\ \A s \in Sinks :
            LokiCallback(s, lvl) =>
              \A e \in pending'[s] \ pending[s] : e.lvl = lvl
       /\ BufferCallback(lvl) =>
            acc'["useLoki"][Len(acc'["useLoki"])].lvl = lvl]_vars

\* C31: an Alert call that returns an error leaves the maps of the caller as
\* they were before the call.
C31_FailedAlertLeavesMaps ==
  [][(AlertStep /\ ret'.err # "") =>
       \A k \in DOMAIN maps : maps'[k] = maps[k]]_vars

\* C32: however the WithAlertManager calls of several goroutines interleave,
\* at most one of them returns nil, alertQueue is assigned at most once and
\* at most one flusher is started; once all have returned, exactly one.
C32_OneAlertQueueUnderRace ==
  call.api = "WithAlertManager" =>
    /\ Cardinality({g \in Callers : call.at[g] = "returned"}) <= 1
    /\ call.assigned <= 1
    /\ flushers["alert"] <= 1
    /\ (\A g \in Callers : call.at[g] \in {"returned", "rejected"}) =>
         (call.assigned = 1 /\ flushers["alert"] = 1)

\* C33: after any number of UseLoki calls one processBatches goroutine has
\* been started, and the dispatch of a log event of any level appends one
\* entry to the buffer.
C33_OneBufferOneFlusher ==
  (build = "v3" /\ call = NoCall /\ pc["useLoki"] # "off") =>
    /\ flushers["useLoki"] = 1
    /\ \A l \in LogLevels :
         LET st == Dispatch(Touched, [id |-> nextId, ts |-> now, lvl |-> l])
         IN  Len(st.acc["useLoki"]) = Len(acc["useLoki"]) + 1

\* C34: no StopLoki call is left without a receiver: a call made before
\* UseLoki has returned, and no caller waits in its send on done once
\* processBatches has exited; the flusher that takes the signal goes into
\* its last sendBatch or exits.
C34_StopLokiReturns ==
  /\ [](call.api = "StopLoki" =>
          /\ pc["useLoki"] = "off" => call.waiting = {}
          /\ pc["useLoki"] = "stopped" => call.waiting = {})
  /\ [][(call.api = "StopLoki" /\ call.returned # call'.returned
           /\ pc["useLoki"] # "off") =>
          pc'["useLoki"] \in {"sending", "stopped"}]_vars

\* C35: no step of the flusher writes the labels map the caller passed to
\* Alert: the map changes in steps of an Alert call only.
C35_FlusherLeavesCallerMap ==
  [][(nextId' = nextId /\ Len(maps) >= 2) => maps'[2] = maps[2]]_vars

\* The level a level string names, whatever its case
NamedLevel(str) ==
  CASE Len(str) = 5 /\ ToLower(str)[1] = "d" -> LevelDebug
    [] Len(str) = 4 /\ ToLower(str)[1] = "i" -> LevelInfo
    [] Len(str) = 4 /\ ToLower(str)[1] = "w" -> LevelWarn
    [] Len(str) = 5 /\ ToLower(str)[1] = "e" -> LevelError
    [] OTHER -> 0 - 1

\* C36: a Setup call with a string that names no level returns an error and
\* leaves the minimum level and the callbacks as they were; a Setup call
\* with debug, info, warn or error in any case returns nil, sets the minimum
\* level to the level named and appends one console callback to each of the
\* four levels.
C36_SetupAllOrNothing ==
  [][(ret' # ret /\ ret'.api = "Setup") =>
       IF NamedLevel(ret'.str) \notin AllLevels
       THEN /\ ret'.err # ""
            /\ level' = level /\ callbacks' = callbacks
       ELSE /\ ret'.err = ""
            /\ level' = NamedLevel(ret'.str)
            /\ \A l \in AllLevels : callbacks'[l] = Append(callbacks[l], "slog")]_vars

\* Setup("Warn") went through and a later Setup("warning") was refused,
\* with the level still Warn and one console callback per level
C36_Witness ==
  /\ ret # NoRet /\ ret.api = "Setup" /\ ret.err # ""
  /\ ret.str = <<"w", "a", "r", "n", "i", "n", "g">>
  /\ level = LevelWarn
  /\ \A l \in AllLevels : callbacks[l] = <<"slog">>

====
